---- MODULE Spec2Model ----
(***************************************************************************)
(* bmaduum: the story lifecycle executor (internal/lifecycle), the router  *)
(* (internal/router) and the sprint-status store (internal/status).        *)
(*                                                                         *)
(* One Executor drives one story at a time.  Execute is modelled as a      *)
(* process whose positions (pc) are the blocking calls of                  *)
(* executeWithDepth: the status read, the bmad-help fallback, RunSingle    *)
(* and the file operations of Writer.UpdateStatus.  The sprint-status      *)
(* file and its ".tmp" sibling are kept as sequences of lines, so that a   *)
(* half written file is a value of its own.                                *)
(***************************************************************************)
EXTENDS Integers, Sequences, FiniteSets, TLC

(***************************************************************************)
(* Bounds of the model                                                     *)
(***************************************************************************)
\* RunSingle returns an exit code in 0..MaxExitCode
MaxExitCode == 1

(***************************************************************************)
(* internal/status: status values                                          *)
(***************************************************************************)
StatusBacklog == "backlog"
StatusReadyForDev == "ready-for-dev"
StatusInProgress == "in-progress"
StatusReview == "review"
StatusDone == "done"

\* the statuses Status.IsValid accepts
ValidStatuses ==
    {StatusBacklog, StatusReadyForDev, StatusInProgress, StatusReview, StatusDone}

\* Status.IsValid accepting every string
IsValidAnything(s) == TRUE

IsValid(s) == s \in ValidStatuses

\* a status string no part of the program knows (story_test.go uses it)
PendingQA == "pending-qa"

\* every status string the model lets a file or a fallback carry
StatusValues == ValidStatuses \cup {PendingQA}

(***************************************************************************)
(* internal/router                                                         *)
(***************************************************************************)
ErrStoryComplete == "ErrStoryComplete"
ErrUnknownStatus == "ErrUnknownStatus"

chainStep(w, s) == [Workflow |-> w, NextStatus |-> s]

\* a Go map as a function on the set of its keys
EmptyMap == [x \in {} |-> x]

MapPut(m, k, v) == [x \in (DOMAIN m) \cup {k} |-> IF x = k THEN v ELSE m[x]]

\* NewRouter with review mapped to the index of dev-story
NewRouterReviewAtDevStory ==
    [ statusWorkflow |->
          (StatusBacklog :> "create-story") @@ (StatusReadyForDev :> "dev-story")
          @@ (StatusInProgress :> "dev-story") @@ (StatusReview :> "code-review"),
      chain |->
          << chainStep("create-story", StatusReadyForDev),
             chainStep("dev-story", StatusReview),
             chainStep("code-review", StatusDone),
             chainStep("git-commit", StatusDone) >>,
      statusChainIndex |->
          (StatusBacklog :> 0) @@ (StatusReadyForDev :> 1)
          @@ (StatusInProgress :> 1) @@ (StatusReview :> 1) ]

\* NewRouter without the entries of in-progress
NewRouterNoInProgress ==
    [ statusWorkflow |->
          (StatusBacklog :> "create-story") @@ (StatusReadyForDev :> "dev-story")
          @@ (StatusReview :> "code-review"),
      chain |->
          << chainStep("create-story", StatusReadyForDev),
             chainStep("dev-story", StatusReview),
             chainStep("code-review", StatusDone),
             chainStep("git-commit", StatusDone) >>,
      statusChainIndex |->
          (StatusBacklog :> 0) @@ (StatusReadyForDev :> 1) @@ (StatusReview :> 2) ]

NewRouter ==
    [ statusWorkflow |->
          (StatusBacklog :> "create-story") @@ (StatusReadyForDev :> "dev-story")
          @@ (StatusInProgress :> "dev-story") @@ (StatusReview :> "code-review"),
      chain |->
          << chainStep("create-story", StatusReadyForDev),
             chainStep("dev-story", StatusReview),
             chainStep("code-review", StatusDone),
             chainStep("git-commit", StatusDone) >>,
      statusChainIndex |->
          (StatusBacklog :> 0) @@ (StatusReadyForDev :> 1)
          @@ (StatusInProgress :> 1) @@ (StatusReview :> 2) ]

\* manifest.WorkflowEntry, the three columns the router reads
WorkflowEntry(w, t, n) == [Workflow |-> w, TriggerStatus |-> t, NextStatus |-> n]

\* 0-based index of the first chain step named w, -1 if there is none
RECURSIVE IndexFrom(_, _, _)
IndexFrom(chain, w, i) ==
    IF i > Len(chain) THEN -1
    ELSE IF chain[i].Workflow = w THEN i - 1
    ELSE IndexFrom(chain, w, i + 1)

ChainIndexOf(chain, w) == IndexFrom(chain, w, 1)

\* the loop body registering len(r.chain) for a new workflow
ManifestStepIndexPastEnd(r, entry) ==
    IF ChainIndexOf(r.chain, entry.Workflow) >= 0
    THEN IF entry.TriggerStatus # ""
         THEN [r EXCEPT
                 !.statusWorkflow = MapPut(@, entry.TriggerStatus, entry.Workflow),
                 !.statusChainIndex =
                     MapPut(@, entry.TriggerStatus, ChainIndexOf(r.chain, entry.Workflow))]
         ELSE r
    ELSE LET chain2 == Append(r.chain, chainStep(entry.Workflow, entry.NextStatus))
         IN  IF entry.TriggerStatus # ""
             THEN [ chain |-> chain2,
                    statusWorkflow |->
                        MapPut(r.statusWorkflow, entry.TriggerStatus, entry.Workflow),
                    statusChainIndex |->
                        MapPut(r.statusChainIndex, entry.TriggerStatus, Len(chain2)) ]
             ELSE [r EXCEPT !.chain = chain2]

\* the loop body skipping every entry of a workflow already in the chain
ManifestStepSkipsSeen(r, entry) ==
    IF ChainIndexOf(r.chain, entry.Workflow) >= 0
    THEN r
    ELSE LET chain2 == Append(r.chain, chainStep(entry.Workflow, entry.NextStatus))
         IN  IF entry.TriggerStatus # ""
             THEN [ chain |-> chain2,
                    statusWorkflow |->
                        MapPut(r.statusWorkflow, entry.TriggerStatus, entry.Workflow),
                    statusChainIndex |->
                        MapPut(r.statusChainIndex, entry.TriggerStatus, Len(chain2) - 1) ]
             ELSE [r EXCEPT !.chain = chain2]

\* one iteration of the loop of NewRouterFromManifest
ManifestStep(r, entry) ==
    IF ChainIndexOf(r.chain, entry.Workflow) >= 0
    THEN \* seen[entry.Workflow]: only the trigger status mapping is added
         IF entry.TriggerStatus # ""
         THEN [r EXCEPT
                 !.statusWorkflow = MapPut(@, entry.TriggerStatus, entry.Workflow),
                 !.statusChainIndex =
                     MapPut(@, entry.TriggerStatus, ChainIndexOf(r.chain, entry.Workflow))]
         ELSE r
    ELSE LET chain2 == Append(r.chain, chainStep(entry.Workflow, entry.NextStatus))
         IN  IF entry.TriggerStatus # ""
             THEN [ chain |-> chain2,
                    statusWorkflow |->
                        MapPut(r.statusWorkflow, entry.TriggerStatus, entry.Workflow),
                    statusChainIndex |->
                        MapPut(r.statusChainIndex, entry.TriggerStatus, Len(chain2) - 1) ]
             ELSE [r EXCEPT !.chain = chain2]

RECURSIVE ManifestFold(_, _, _)
ManifestFold(r, entries, i) ==
    IF i > Len(entries) THEN r
    ELSE ManifestFold(ManifestStep(r, entries[i]), entries, i + 1)

NewRouterFromManifest(m) ==
    ManifestFold([statusWorkflow |-> EmptyMap, chain |-> << >>,
                  statusChainIndex |-> EmptyMap], m, 1)

\* GetLifecycle with the chain suffix starting one step late
GetLifecycleSkipsFirst(r, s) ==
    IF s = StatusDone THEN [err |-> ErrStoryComplete, steps |-> << >>]
    ELSE IF s \notin DOMAIN r.statusChainIndex
         THEN [err |-> ErrUnknownStatus, steps |-> << >>]
    ELSE [err |-> "nil",
          steps |-> SubSeq(r.chain, r.statusChainIndex[s] + 2, Len(r.chain))]

\* GetLifecycle without the test for done
GetLifecycleNoDoneCheck(r, s) ==
    IF s \notin DOMAIN r.statusChainIndex
    THEN [err |-> ErrUnknownStatus, steps |-> << >>]
    ELSE [err |-> "nil",
          steps |-> SubSeq(r.chain, r.statusChainIndex[s] + 1, Len(r.chain))]

\* Router.GetLifecycle: [err, steps]
GetLifecycle(r, s) ==
    IF s = StatusDone THEN [err |-> ErrStoryComplete, steps |-> << >>]
    ELSE IF s \notin DOMAIN r.statusChainIndex
         THEN [err |-> ErrUnknownStatus, steps |-> << >>]
    ELSE [err |-> "nil",
          steps |-> SubSeq(r.chain, r.statusChainIndex[s] + 1, Len(r.chain))]

\* GetWorkflow without the test for done
GetWorkflowNoDoneCheck(r, s) ==
    IF s \notin DOMAIN r.statusWorkflow
    THEN [err |-> ErrUnknownStatus, workflow |-> ""]
    ELSE [err |-> "nil", workflow |-> r.statusWorkflow[s]]

\* Router.GetWorkflow: [err, workflow]
GetWorkflow(r, s) ==
    IF s = StatusDone THEN [err |-> ErrStoryComplete, workflow |-> ""]
    ELSE IF s \notin DOMAIN r.statusWorkflow
         THEN [err |-> ErrUnknownStatus, workflow |-> ""]
    ELSE [err |-> "nil", workflow |-> r.statusWorkflow[s]]

\* InsertStepAfter without the test that newWorkflow is already in the chain
InsertStepAfterNoDuplicateCheck(r, afterWorkflow, newWorkflow, nextStatus) ==
    IF ChainIndexOf(r.chain, afterWorkflow) < 0 THEN r
    ELSE LET insertIdx == ChainIndexOf(r.chain, afterWorkflow) + 1
         IN  [ statusWorkflow |-> r.statusWorkflow,
               chain |->
                   SubSeq(r.chain, 1, insertIdx)
                   \o << chainStep(newWorkflow, nextStatus) >>
                   \o SubSeq(r.chain, insertIdx + 1, Len(r.chain)),
               statusChainIndex |->
                   [s \in DOMAIN r.statusChainIndex |->
                       IF r.statusChainIndex[s] >= insertIdx
                       THEN r.statusChainIndex[s] + 1
                       ELSE r.statusChainIndex[s]] ]

\* InsertStepAfter shifting only the indices "idx > insertIdx"
InsertStepAfterShiftsPastOnly(r, afterWorkflow, newWorkflow, nextStatus) ==
    IF ChainIndexOf(r.chain, newWorkflow) >= 0 THEN r
    ELSE IF ChainIndexOf(r.chain, afterWorkflow) < 0 THEN r
    ELSE LET insertIdx == ChainIndexOf(r.chain, afterWorkflow) + 1
         IN  [ statusWorkflow |-> r.statusWorkflow,
               chain |->
                   SubSeq(r.chain, 1, insertIdx)
                   \o << chainStep(newWorkflow, nextStatus) >>
                   \o SubSeq(r.chain, insertIdx + 1, Len(r.chain)),
               statusChainIndex |->
                   [s \in DOMAIN r.statusChainIndex |->
                       IF r.statusChainIndex[s] > insertIdx
                       THEN r.statusChainIndex[s] + 1
                       ELSE r.statusChainIndex[s]] ]

\* Router.InsertStepAfter
InsertStepAfter(r, afterWorkflow, newWorkflow, nextStatus) ==
    IF ChainIndexOf(r.chain, newWorkflow) >= 0 THEN r
    ELSE IF ChainIndexOf(r.chain, afterWorkflow) < 0 THEN r
    ELSE LET insertIdx == ChainIndexOf(r.chain, afterWorkflow) + 1
         IN  [ statusWorkflow |-> r.statusWorkflow,
               chain |->
                   SubSeq(r.chain, 1, insertIdx)
                   \o << chainStep(newWorkflow, nextStatus) >>
                   \o SubSeq(r.chain, insertIdx + 1, Len(r.chain)),
               statusChainIndex |->
                   [s \in DOMAIN r.statusChainIndex |->
                       IF r.statusChainIndex[s] >= insertIdx
                       THEN r.statusChainIndex[s] + 1
                       ELSE r.statusChainIndex[s]] ]

\* the manifest of the package documentation: it lists the default chain
FaithfulManifest ==
    << WorkflowEntry("create-story", StatusBacklog, StatusReadyForDev),
       WorkflowEntry("dev-story", StatusReadyForDev, StatusReview),
       WorkflowEntry("dev-story", StatusInProgress, StatusReview),
       WorkflowEntry("code-review", StatusReview, StatusDone),
       WorkflowEntry("git-commit", "", StatusDone) >>

\* the manifest of TestNewRouterFromManifest_CustomChain: no row for in-progress
CustomChainManifest ==
    << WorkflowEntry("plan", StatusBacklog, StatusReadyForDev),
       WorkflowEntry("implement", StatusReadyForDev, StatusReview),
       WorkflowEntry("test", StatusReview, StatusDone) >>

\* the manifest of TestReadFromString: two rows, the last one ends in review
TwoRowManifest ==
    << WorkflowEntry("create-story", StatusBacklog, StatusReadyForDev),
       WorkflowEntry("dev-story", StatusReadyForDev, StatusReview) >>

\* the routers SetRouter is called with
Routers ==
    { NewRouter,
      NewRouterFromManifest(FaithfulManifest),
      NewRouterFromManifest(CustomChainManifest),
      InsertStepAfter(NewRouter, "code-review", "test-automation", StatusDone) }

(***************************************************************************)
(* internal/status: the sprint-status document                             *)
(***************************************************************************)
Stories == {"STORY-1", "STORY-2"}

\* story keys in the order yaml.Marshal writes map keys (sorted)
StoryOrder == << "STORY-1", "STORY-2" >>

\* a file is a sequence of lines; a line is the header "development_status:",
\* a "key: status" entry, a comment, or text that is not YAML
HdrLine == [kind |-> "hdr", key |-> "", val |-> ""]
EntryLine(k, v) == [kind |-> "entry", key |-> k, val |-> v]
CommentLine == [kind |-> "comment", key |-> "", val |-> ""]
JunkLine == [kind |-> "junk", key |-> "", val |-> ""]

\* a top-level key of the document other than development_status
FieldLine == [kind |-> "field", key |-> "project", val |-> "demo"]

NoFile == [exists |-> FALSE, data |-> << >>]
File(lines) == [exists |-> TRUE, data |-> lines]

\* the Writer writing the document in place
TmpPathInPlace == "sprint-status.yaml"

\* the resolved path of the document and the sibling the Writer writes first
FullPath == "sprint-status.yaml"
TmpPath == "sprint-status.yaml.tmp"
Paths == {FullPath, TmpPath}

\* yaml.Unmarshal into SprintStatus: [err, DevelopmentStatus]
Unmarshal(data) ==
    IF \E i \in 1..Len(data) : data[i].kind = "junk"
    THEN [err |-> "parse", DevelopmentStatus |-> EmptyMap]
    ELSE LET idx == {i \in 1..Len(data) : data[i].kind = "entry"}
         IN  [err |-> "nil",
              DevelopmentStatus |->
                  [k \in {data[i].key : i \in idx} |->
                      data[CHOOSE i \in idx : data[i].key = k].val]]

\* yaml.Marshal of SprintStatus: the header, then the entries sorted by key
Marshal(ds) ==
    LET keys == SelectSeq(StoryOrder, LAMBDA k : k \in DOMAIN ds)
    IN  << HdrLine >> \o [i \in 1..Len(keys) |-> EntryLine(keys[i], ds[keys[i]])]

\* Reader.GetStoryStatus on the file as it is now: [err, status]
GetStoryStatus(file, storyKey) ==
    IF ~file.exists THEN [err |-> "read", status |-> ""]
    ELSE LET u == Unmarshal(file.data)
         IN  IF u.err # "nil" THEN [err |-> "parse", status |-> ""]
             ELSE IF storyKey \notin DOMAIN u.DevelopmentStatus
                  THEN [err |-> "notfound", status |-> ""]
             ELSE [err |-> "nil", status |-> u.DevelopmentStatus[storyKey]]

\* a document as a person writes it: a comment on top, keys in any order
HandDoc(s) ==
    File(<< CommentLine, HdrLine, EntryLine("STORY-2", StatusBacklog),
            EntryLine("STORY-1", s) >>)

\* the documents Execute may find on disk
InitDocs ==
    {HandDoc(s) : s \in StatusValues}
    \cup { NoFile,
           File(<< HdrLine, JunkLine >>),
           File(<< HdrLine, EntryLine("STORY-2", StatusReview) >>) }

(***************************************************************************)
(* internal/lifecycle                                                      *)
(***************************************************************************)
maxBmadHelpDepth == 3

\* what a BmadHelpFallback may answer: any workflow name of the known set with
\* any status string (the interface does not restrict it)
HelpWorkflows == {"code-review", "dev-story"}

\* one record shape for every entry of the call log; ev is one of
\*   "read"     GetStoryStatus returned st
\*   "help"     ResolveWorkflow called with current status st
\*   "helped"   ResolveWorkflow returned (wf, st)
\*   "progress" the progress callback called with (i, n, wf)
\*   "run"      RunSingle called for wf
\*   "exit"     RunSingle returned code
\*   "update"   UpdateStatus called with st
\*   "updated"  UpdateStatus returned nil
\* d is the depth argument of the executeWithDepth call that made the call
Ev(ev, d, ix, n, wf, st, code) ==
    [ev |-> ev, d |-> d, i |-> ix, n |-> n, wf |-> wf, st |-> st, code |-> code]

Res(kind, wf, code) == [kind |-> kind, wf |-> wf, code |-> code]

\* the exit codes RunSingle may return
ExitCodes == 0..MaxExitCode

\* the step loop testing "exitCode < 0"
PhaseFailedNegativeOnly(exitCode) == exitCode < 0

\* "if exitCode != 0" of the step loop
PhaseFailed(exitCode) == exitCode # 0

\* the error the step loop returns for a failed phase
WorkflowFailed(step, exitCode) == Res("WorkflowFailed", step.Workflow, exitCode)

\* the step loop calling the progress callback after RunSingle
StepCallsRunFirst(cb, d, ix, stps) ==
    << Ev("run", d, ix + 1, 0, stps[ix + 1].Workflow, "", 0) >>
    \o (IF cb
        THEN << Ev("progress", d, ix + 1, Len(stps), stps[ix + 1].Workflow, "", 0) >>
        ELSE << >>)

\* the events of one loop iteration up to the RunSingle call
StepCalls(cb, d, ix, stps) ==
    (IF cb THEN << Ev("progress", d, ix + 1, Len(stps), stps[ix + 1].Workflow, "", 0) >>
     ELSE << >>)
    \o << Ev("run", d, ix + 1, 0, stps[ix + 1].Workflow, "", 0) >>

\* executeWithDepth testing "depth > maxBmadHelpDepth"
RouteDepthOffByOne(lcErr, fb, d) ==
    IF lcErr = "nil" THEN "loop"
    ELSE IF lcErr = ErrUnknownStatus /\ fb
         THEN IF d > maxBmadHelpDepth THEN "depth" ELSE "help"
    ELSE "return"

\* executeWithDepth not testing that a fallback is installed
RouteFallbackUnchecked(lcErr, fb, d) ==
    IF lcErr = "nil" THEN "loop"
    ELSE IF lcErr = ErrUnknownStatus
         THEN IF d >= maxBmadHelpDepth THEN "depth" ELSE "help"
    ELSE "return"

\* what executeWithDepth does with the status it read: "loop", "help",
\* "depth" (fallback depth exceeded) or "return" (the router's sentinel)
Route(lcErr, fb, d) ==
    IF lcErr = "nil" THEN "loop"
    ELSE IF lcErr = ErrUnknownStatus /\ fb
         THEN IF d >= maxBmadHelpDepth THEN "depth" ELSE "help"
    ELSE "return"

\* executeWithDepth returning nil after a fallback-derived step
RecursesNever(used) == FALSE

\* executeWithDepth recursing after every step loop
RecursesAlways(used) == TRUE

\* "if usedBmadHelp" after the step loop
Recurses(used) == used

VARIABLES
    router,            \* Executor.router (the default router when never set)
    progressCallback,  \* TRUE when a callback is installed
    bmadHelp,          \* TRUE when a fallback is installed
    fs,                \* the two files: path -> file
    pc,                \* position of the Execute call
    storyKey,          \* argument of Execute
    depth,             \* argument of executeWithDepth
    steps,             \* local steps
    i,                 \* loop index of the range over steps (0-based)
    usedBmadHelp,      \* local usedBmadHelp
    result,            \* what Execute returned
    log,               \* calls made by Execute, in order
    cancelMark,        \* Len(log) when ctx was cancelled, 0 if it was not
    updatedData,       \* local updatedData of UpdateStatus
    preDoc,            \* the document when UpdateStatus was called
    updErr,            \* outcome of the last UpdateStatus
    readsDuring,       \* what concurrent Reads saw since UpdateStatus was called
    rt,                \* a Router under construction or in use
    rtKind,            \* how rt was built: "default", "faithful", "custom", "manifest"
    rtPhase,           \* "building" inside NewRouterFromManifest, then "built"
    rtRows,            \* manifest entries NewRouterFromManifest has gone through
    rtManifest,        \* the manifest, when NewRouterFromManifest is called on a given one
    rtInserts,         \* InsertStepAfter calls that inserted a step
    rtPrev,            \* rt before the last InsertStepAfter call
    rtCall,            \* the last InsertStepAfter call: [op, a, b, s]
    rtOut,             \* the last GetLifecycle/GetWorkflow call: [op, s, lc, wf]
    psInput,           \* the lines of the reader given to Parse
    psPos,             \* lines the scanner has consumed
    psPc,              \* the goroutine of Parse: "scan", "send", "closed"
    psEvent,           \* the Event the goroutine is sending
    psOut,             \* what the consumer received: [from, ev], in order
    psStopped,         \* the consumer has stopped receiving from the channel
    psMode,            \* "parse": Parse and its consumer; "runClaude": the one loop
    psHandled,         \* the number of events the handler has finished with
    esKeys,            \* the keys of DevelopmentStatus in the document read
    esEpic,            \* argument epicID of GetEpicStories
    esPc,              \* GetEpicStories: "range", "sort", "done"
    esLeft,            \* keys the range over the map has not yet produced
    esStories,         \* local stories: [key, num], in the order appended
    esOut,             \* what GetEpicStories returned: [err, keys]
    prResponse,        \* argument response of ParseResponse
    prOut,             \* what ParseResponse returned: [err, Workflow, NextStatus]
    rpEnv,             \* the value of BMADUUM_SPRINT_STATUS_PATH ("" when not set)
    rpBasePath,        \* argument basePath of ResolvePath
    rpStatusPath,      \* argument statusPath of ResolvePath
    rpDisk,            \* what is on disk at each candidate path
    rpOut,             \* what ResolvePath returned
    stDocs,            \* the document at each path the Reader or the Writer may use
    stUpd,             \* the call of Writer.UpdateStatus: [err, key, status]
    stGot,             \* what Reader.GetStoryStatus returned after it: [err, status]
    cmdArgs,           \* the story keys given to the story command
    cmdDryRun,         \* the flag --dry-run
    cmdAt,             \* the argument the command is at (1-based)
    cmdPc,             \* the story command: "off", "run", "ended"
    cmdCount,          \* story commands started
    cmdPlan,           \* what the last GetSteps returned: [err, steps]
    cmdErr,            \* what the last story command returned
    cmdRuns            \* the Execute and GetSteps calls that returned, in order

execVars ==
    << router, progressCallback, bmadHelp, fs, pc, storyKey, depth, steps, i,
       usedBmadHelp, result, log, cancelMark, updatedData, preDoc, updErr,
       readsDuring >>

\* the variables of the calls made on a Router directly
routerVars == << rt, rtKind, rtPhase, rtRows, rtManifest, rtInserts, rtPrev, rtCall,
                rtOut >>

\* the variables of a call of DefaultParser.Parse
parserVars == << psInput, psPos, psPc, psEvent, psOut, psStopped, psMode, psHandled >>

\* the variables of a call of Reader.GetEpicStories
epicVars == << esKeys, esEpic, esPc, esLeft, esStories, esOut >>

\* the variables of a call of bmadhelp.ParseResponse
helpVars == << prResponse, prOut >>

\* the variables of a call of status.ResolvePath
pathVars == << rpEnv, rpBasePath, rpStatusPath, rpDisk, rpOut, stDocs, stUpd, stGot >>

\* the variables of the story command
cmdVars == << cmdArgs, cmdDryRun, cmdAt, cmdPc, cmdCount, cmdPlan, cmdErr, cmdRuns >>

libVars == << routerVars, parserVars, epicVars, helpVars, pathVars, cmdVars >>

notRouterVars == << execVars, parserVars, epicVars, helpVars, pathVars, cmdVars >>
notParserVars == << execVars, routerVars, epicVars, helpVars, pathVars, cmdVars >>
notEpicVars == << execVars, routerVars, parserVars, helpVars, pathVars, cmdVars >>
notHelpVars == << execVars, routerVars, parserVars, epicVars, pathVars, cmdVars >>
notPathVars == << execVars, routerVars, parserVars, epicVars, helpVars, cmdVars >>
\* the variables of the calls made on the libraries directly
callVars == << routerVars, parserVars, epicVars, helpVars, pathVars >>

vars == << execVars, libVars >>

cfgVars == << router, progressCallback, bmadHelp >>
updVars == << updatedData, preDoc, updErr, readsDuring >>
runVars == << storyKey, depth, steps, i, usedBmadHelp >>

(***************************************************************************)
(* internal/claude: the lines of the stream, json.Unmarshal into            *)
(* StreamEvent, NewEventFromStream                                         *)
(***************************************************************************)
EventTypeSystem == "system"
EventTypeAssistant == "assistant"
EventTypeUser == "user"
EventTypeResult == "result"
SubtypeInit == "init"

KnownEventTypes == {EventTypeSystem, EventTypeAssistant, EventTypeUser, EventTypeResult}

\* StreamEvent: type, subtype and the text block of message.content
StreamEvent(t, st, text) == [Type |-> t, Subtype |-> st, Text |-> text]

\* a line of the reader.  kind: "empty" is the empty line; "garbage" is text
\* that is not JSON (a partial object, blanks); "mistyped" is JSON that does
\* not decode into a StreamEvent (a number, an array, an object whose type is
\* not a string); "null" is the JSON null; "object" is a JSON object that
\* decodes, with the fields in raw.  long: the line does not fit the buffer of
\* the scanner.
Line(kind, raw, long) == [kind |-> kind, raw |-> raw, long |-> long]

ZeroStreamEvent == StreamEvent("", "", "")

ObjectLine(t, st, text) == Line("object", StreamEvent(t, st, text), FALSE)

Lines ==
    { Line("empty", ZeroStreamEvent, FALSE),
      Line("garbage", ZeroStreamEvent, FALSE),
      Line("garbage", ZeroStreamEvent, TRUE),
      Line("mistyped", ZeroStreamEvent, FALSE),
      Line("null", ZeroStreamEvent, FALSE),
      ObjectLine(EventTypeSystem, SubtypeInit, ""),
      ObjectLine(EventTypeSystem, "", ""),
      ObjectLine(EventTypeAssistant, "", "hi"),
      ObjectLine(EventTypeUser, "", "hi"),
      ObjectLine(EventTypeResult, "", ""),
      ObjectLine("ping", "", ""),
      Line("object", StreamEvent(EventTypeResult, "", ""), TRUE) }

\* the line is valid JSON
IsJSON(line) == line.kind \in {"mistyped", "null", "object"}

\* json.Unmarshal([]byte(line), &streamEvent): [err, ev]
JsonUnmarshal(line) ==
    IF line.kind = "object" THEN [err |-> "nil", ev |-> line.raw]
    ELSE IF line.kind = "null" THEN [err |-> "nil", ev |-> ZeroStreamEvent]
    ELSE [err |-> "syntax or type error", ev |-> ZeroStreamEvent]

\* Event: the fields NewEventFromStream fills from type, subtype and text
NewEventFromStream(raw) ==
    [ Type |-> raw.Type,
      Subtype |-> raw.Subtype,
      Text |-> IF raw.Type = EventTypeAssistant THEN raw.Text ELSE "",
      SessionStarted |-> raw.Type = EventTypeSystem /\ raw.Subtype = SubtypeInit,
      SessionComplete |-> raw.Type = EventTypeResult ]

NoEvent == NewEventFromStream(ZeroStreamEvent)

\* the loop of Parse stopping at a line that does not decode
LineActionStopsOnGarbage(line) ==
    IF line.long THEN "stop"
    ELSE IF line.kind = "empty" THEN "skip"
    ELSE IF JsonUnmarshal(line).err # "nil" THEN "stop"
    ELSE "send"

\* what the loop of Parse does with the next line: scanner.Scan() fails on a
\* line that does not fit the buffer, the empty line and a line that does not
\* decode are skipped, every other line is sent
LineAction(line) ==
    IF line.long THEN "stop"
    ELSE IF line.kind = "empty" THEN "skip"
    ELSE IF JsonUnmarshal(line).err # "nil" THEN "skip"
    ELSE "send"

(***************************************************************************)
(* internal/status: Reader.GetEpicStories.  A story key is a string, kept  *)
(* as the sequence of its characters                                       *)
(***************************************************************************)
Digits == {"0", "1", "2", "3", "4", "5", "6", "7", "8", "9"}

DigitValue(c) ==
    CASE c = "0" -> 0 [] c = "1" -> 1 [] c = "2" -> 2 [] c = "3" -> 3
      [] c = "4" -> 4 [] c = "5" -> 5 [] c = "6" -> 6 [] c = "7" -> 7
      [] c = "8" -> 8 [] OTHER -> 9

\* strings.HasPrefix
HasPrefix(str, prefix) ==
    Len(str) >= Len(prefix) /\ SubSeq(str, 1, Len(prefix)) = prefix

\* strings.TrimPrefix
TrimPrefix(str, prefix) ==
    IF HasPrefix(str, prefix) THEN SubSeq(str, Len(prefix) + 1, Len(str)) ELSE str

\* strings.SplitN(str, "-", 2)[0]: the text before the first "-"
FirstPart(str) ==
    LET dashes == {k \in 1..Len(str) : str[k] = "-"}
    IN  IF dashes = {} THEN str
        ELSE SubSeq(str, 1, (CHOOSE k \in dashes : \A j \in dashes : k <= j) - 1)

\* the value of a string of decimal digits
RECURSIVE Decimal(_)
Decimal(str) ==
    IF Len(str) = 0 THEN 0
    ELSE 10 * Decimal(SubSeq(str, 1, Len(str) - 1)) + DigitValue(str[Len(str)])

\* strconv.Atoi: an optional sign, then one digit or more: [err, num]
Atoi(str) ==
    LET signed == Len(str) > 0 /\ str[1] \in {"+", "-"}
        body == IF signed THEN Tail(str) ELSE str
    IN  IF Len(body) = 0 \/ \E k \in 1..Len(body) : body[k] \notin Digits
        THEN [err |-> "syntax", num |-> 0]
        ELSE [err |-> "nil",
              num |-> IF signed /\ str[1] = "-" THEN 0 - Decimal(body)
                      ELSE Decimal(body)]

storyWithNum(key, num) == [key |-> key, num |-> num]

\* the body of the range loop keeping every key that has the prefix
CollectIgnoresNumber(stories, key, epicID) ==
    LET prefix == epicID \o << "-" >>
    IN  IF ~HasPrefix(key, prefix) THEN stories
        ELSE Append(stories, storyWithNum(key, 0))

\* the body of the range loop over DevelopmentStatus, for one key
Collect(stories, key, epicID) ==
    LET prefix == epicID \o << "-" >>
        parsed == Atoi(FirstPart(TrimPrefix(key, prefix)))
    IN  IF ~HasPrefix(key, prefix) THEN stories
        ELSE IF parsed.err # "nil" THEN stories
        ELSE Append(stories, storyWithNum(key, parsed.num))

\* the comparison comparing the keys, character by character
RECURSIVE KeyBefore(_, _)
KeyBefore(a, b) ==
    IF Len(b) = 0 THEN FALSE
    ELSE IF Len(a) = 0 THEN TRUE
    ELSE IF a[1] = b[1] THEN KeyBefore(Tail(a), Tail(b))
    ELSE a[1] \in Digits /\ b[1] \in Digits /\ DigitValue(a[1]) < DigitValue(b[1])

LessByKey(a, b) == KeyBefore(a.key, b.key)

\* the less function given to sort.Slice
Less(a, b) == a.num < b.num

\* the permutations of a sequence
Orderings(q) ==
    { [k \in 1..Len(q) |-> q[f[k]]] :
        f \in {g \in [1..Len(q) -> 1..Len(q)] :
                  \A x, y \in 1..Len(q) : x # y => g[x] # g[y]} }

\* sort.Slice is not stable: any permutation that Less does not contradict
SortSlice(q) ==
    {r \in Orderings(q) : \A x, y \in 1..Len(r) : x < y => ~Less(r[y], r[x])}

NoStories == [err |-> "", keys |-> << >>]

(***************************************************************************)
(* internal/bmadhelp: ParseResponse.  A response is a string, kept as the  *)
(* sequence of the pieces of text it is made of; the pieces are cut where  *)
(* a workflow name can begin or end                                        *)
(***************************************************************************)
knownWorkflows ==
    << "create-story", "dev-story", "code-review", "test-automation", "git-commit" >>

workflowNextStatus ==
    [w \in {"create-story", "dev-story", "code-review", "test-automation",
            "git-commit"} |->
        CASE w = "create-story" -> StatusReadyForDev
          [] w = "dev-story" -> StatusReview
          [] OTHER -> StatusDone]

\* the pieces of text of the responses
Pieces ==
    { "create-", "CREATE-", "dev-", "Dev-", "story", "STORY", "code-review",
      "Code-Review", "test-automation", "git-commit", "GIT-COMMIT", " then ",
      "deploy" }

\* strings.ToLower of one piece
LowerPiece(piece) ==
    CASE piece = "CREATE-" -> "create-"
      [] piece = "Dev-" -> "dev-"
      [] piece = "STORY" -> "story"
      [] piece = "Code-Review" -> "code-review"
      [] piece = "GIT-COMMIT" -> "git-commit"
      [] OTHER -> piece

\* strings.ToLower leaving the text as it is
ToLowerKeepsCase(text) == text

\* strings.ToLower
ToLower(text) == [k \in 1..Len(text) |-> LowerPiece(text[k])]

\* a workflow name as pieces of text
Spelled(workflow) ==
    CASE workflow = "create-story" -> << "create-", "story" >>
      [] workflow = "dev-story" -> << "dev-", "story" >>
      [] OTHER -> << workflow >>

\* the positions of text where substr begins
IndexesOf(text, substr) ==
    {k \in 1..(Len(text) - Len(substr) + 1) :
        SubSeq(text, k, k + Len(substr) - 1) = substr}

\* strings.Contains(text, workflow)
Contains(text, workflow) == IndexesOf(text, Spelled(workflow)) # {}

Recommendation(err, workflow, nextStatus) ==
    [err |-> err, Workflow |-> workflow, NextStatus |-> nextStatus]

NoRecommendation == Recommendation("", "", "")

\* ParseResponse returning the known workflow that occurs first in the text
ParseResponseFirstInText(response) ==
    LET lower == ToLower(response)
        found == {j \in 1..Len(knownWorkflows) : Contains(lower, knownWorkflows[j])}
        first(j) == CHOOSE k \in IndexesOf(lower, Spelled(knownWorkflows[j])) :
                        \A h \in IndexesOf(lower, Spelled(knownWorkflows[j])) : k <= h
    IN  IF found = {}
        THEN Recommendation("no recognizable workflow", "", "")
        ELSE LET j == CHOOSE x \in found : \A y \in found : first(x) <= first(y)
             IN  Recommendation("nil", knownWorkflows[j],
                                workflowNextStatus[knownWorkflows[j]])

\* the loop of ParseResponse from entry j of knownWorkflows on
RECURSIVE ParseFrom(_, _)
ParseFrom(lower, j) ==
    IF j > Len(knownWorkflows)
    THEN Recommendation("no recognizable workflow", "", "")
    ELSE IF Contains(lower, knownWorkflows[j])
    THEN Recommendation("nil", knownWorkflows[j],
                        IF knownWorkflows[j] \in DOMAIN workflowNextStatus
                        THEN workflowNextStatus[knownWorkflows[j]]
                        ELSE StatusDone)
    ELSE ParseFrom(lower, j + 1)

ParseResponse(response) == ParseFrom(ToLower(response), 1)

(***************************************************************************)
(* internal/status: ResolvePath.  A path is the sequence of the names      *)
(* filepath.Join put together                                              *)
(***************************************************************************)
V6StatusPath == "_bmad-output/implementation-artifacts/sprint-status.yaml"
LegacyStatusPath == "sprint-status.yaml"

\* StatusPaths with the legacy path first
StatusPathsLegacyFirst == << LegacyStatusPath, V6StatusPath >>

StatusPaths == << V6StatusPath, LegacyStatusPath >>

\* filepath.Join(basePath, p): an empty element is left out
Join(basePath, p) == IF basePath = "" THEN << p >> ELSE << basePath, p >>

\* os.Stat(fullPath) returns a nil error: there is a file or a directory
StatOk(disk, fullPath) == fullPath \in DOMAIN disk /\ disk[fullPath] # "absent"

\* the loop over StatusPaths from entry j on, and the default after it
RECURSIVE Discover(_, _, _)
Discover(basePath, disk, j) ==
    IF j > Len(StatusPaths) THEN Join(basePath, V6StatusPath)
    ELSE IF StatOk(disk, Join(basePath, StatusPaths[j]))
    THEN Join(basePath, StatusPaths[j])
    ELSE Discover(basePath, disk, j + 1)

\* DefaultStatusPath, the alias of V6StatusPath
DefaultStatusPath == V6StatusPath

\* "fullPath := filepath.Join(w.basePath, DefaultStatusPath)" of UpdateStatus
WriterPath(basePath) == Join(basePath, DefaultStatusPath)

\* Writer.UpdateStatus up to yaml.Marshal, on the file at fullPath: [err, data]
UpdatedData(file, key, newStatus) ==
    IF ~IsValid(newStatus) THEN [err |-> "invalid", data |-> << >>]
    ELSE IF ~file.exists THEN [err |-> "read", data |-> << >>]
    ELSE LET u == Unmarshal(file.data)
         IN  IF u.err # "nil" THEN [err |-> "parse", data |-> << >>]
             ELSE IF key \notin DOMAIN u.DevelopmentStatus
                  THEN [err |-> "notfound", data |-> << >>]
             ELSE [err |-> "nil",
                   data |-> Marshal(MapPut(u.DevelopmentStatus, key, newStatus))]

\* ResolvePath looking at the explicit path before the environment
ResolvePathExplicitFirst(basePath, statusPath, env, disk) ==
    IF statusPath # "" THEN << statusPath >>
    ELSE IF env # "" THEN << env >>
    ELSE Discover(basePath, disk, 1)

\* ResolvePath, with the environment and the disk it reads as arguments
ResolvePath(basePath, statusPath, env, disk) ==
    IF env # "" THEN << env >>
    ELSE IF statusPath # "" THEN << statusPath >>
    ELSE Discover(basePath, disk, 1)

\* no call made on a Router directly
NoCall == [op |-> "none", a |-> "", b |-> "", s |-> ""]
NoOut == [op |-> "none", s |-> "", lc |-> [err |-> "", steps |-> << >>],
          wf |-> [err |-> "", workflow |-> ""]]

RouterIdle ==
    /\ rt = NewRouter
    /\ rtKind = "default"
    /\ rtPhase = "off"
    /\ rtRows = 0
    /\ rtManifest = << >>
    /\ rtInserts = 0
    /\ rtPrev = NewRouter
    /\ rtCall = NoCall
    /\ rtOut = NoOut

ParserIdle ==
    /\ psInput = << >>
    /\ psPos = 0
    /\ psPc = "off"
    /\ psEvent = NoEvent
    /\ psOut = << >>
    /\ psStopped = FALSE
    /\ psMode = "parse"
    /\ psHandled = 0

EpicIdle ==
    /\ esKeys = {}
    /\ esEpic = << >>
    /\ esPc = "off"
    /\ esLeft = {}
    /\ esStories = << >>
    /\ esOut = NoStories

HelpIdle ==
    /\ prResponse = << >>
    /\ prOut = NoRecommendation

\* UpdateStatus not called, GetStoryStatus not called
NoUpdate == [err |-> "none", key |-> "", status |-> ""]
NoRead == [err |-> "none", status |-> ""]

PathIdle ==
    /\ rpEnv = ""
    /\ rpBasePath = ""
    /\ rpStatusPath = ""
    /\ rpDisk = EmptyMap
    /\ rpOut = << >>
    /\ stDocs = EmptyMap
    /\ stUpd = NoUpdate
    /\ stGot = NoRead

NoPlan == [err |-> "", steps |-> << >>]

CmdIdle ==
    /\ cmdArgs = << >>
    /\ cmdDryRun = FALSE
    /\ cmdAt = 0
    /\ cmdPc = "off"
    /\ cmdCount = 0
    /\ cmdPlan = NoPlan
    /\ cmdErr = "none"
    /\ cmdRuns = << >>

LibIdle == RouterIdle /\ ParserIdle /\ EpicIdle /\ HelpIdle /\ PathIdle /\ CmdIdle

\* NewExecutor: the Executor before any call
ExecInit ==
    /\ router = NewRouter
    /\ progressCallback = FALSE
    /\ bmadHelp = FALSE
    /\ fs \in {[p \in Paths |-> IF p = FullPath THEN d ELSE NoFile] : d \in InitDocs}
    /\ pc = "idle"
    /\ storyKey = ""
    /\ depth = 0
    /\ steps = << >>
    /\ i = 0
    /\ usedBmadHelp = FALSE
    /\ result = Res("none", "", 0)
    /\ log = << >>
    /\ cancelMark = 0
    /\ updatedData = << >>
    /\ preDoc = NoFile
    /\ updErr = "none"
    /\ readsDuring = {}

Init == ExecInit /\ LibIdle

(***************************************************************************)
(* Configuration, before Execute is called                                 *)
(***************************************************************************)
SetRouter ==
    /\ UNCHANGED libVars
    /\ pc = "idle"
    /\ \E r \in Routers : router' = r
    /\ UNCHANGED << progressCallback, bmadHelp, fs, pc, runVars, result, log,
                    cancelMark, updVars >>

SetProgressCallback ==
    /\ UNCHANGED libVars
    /\ pc = "idle"
    /\ \E cb \in BOOLEAN : progressCallback' = cb
    /\ UNCHANGED << router, bmadHelp, fs, pc, runVars, result, log, cancelMark,
                    updVars >>

SetBmadHelp ==
    /\ UNCHANGED libVars
    /\ pc = "idle"
    /\ \E fb \in BOOLEAN : bmadHelp' = fb
    /\ UNCHANGED << router, progressCallback, fs, pc, runVars, result, log,
                    cancelMark, updVars >>

(***************************************************************************)
(* Executor.Execute / executeWithDepth                                     *)
(***************************************************************************)
Return(r) ==
    /\ result' = r
    /\ pc' = "done"

Execute ==
    /\ UNCHANGED libVars
    /\ pc = "idle"
    /\ \E key \in Stories : storyKey' = key
    /\ depth' = 0
    /\ steps' = << >>
    /\ i' = 0
    /\ usedBmadHelp' = FALSE
    /\ result' = Res("none", "", 0)
    /\ log' = << >>
    /\ cancelMark' = 0
    /\ pc' = "enter"
    /\ UNCHANGED << cfgVars, fs, updVars >>

\* lines 542-569 up to the ResolveWorkflow call
Enter ==
    /\ UNCHANGED libVars
    /\ pc = "enter"
    /\ LET rd == GetStoryStatus(fs[FullPath], storyKey)
           lc == GetLifecycle(router, rd.status)
           way == Route(lc.err, bmadHelp, depth)
           seen == Append(log, Ev("read", depth, 0, 0, "", rd.status, 0))
       IN  IF rd.err # "nil"
           THEN /\ Return(Res("StatusError", rd.err, 0))
                /\ UNCHANGED << log, steps, i, usedBmadHelp >>
           ELSE CASE way = "loop" ->
                       /\ steps' = lc.steps
                       /\ usedBmadHelp' = FALSE
                       /\ i' = 0
                       /\ log' = seen
                       /\ pc' = "loop"
                       /\ UNCHANGED result
                  [] way = "help" ->
                       /\ log' = Append(seen, Ev("help", depth, 0, 0, "", rd.status, 0))
                       /\ pc' = "help"
                       /\ UNCHANGED << result, steps, i, usedBmadHelp >>
                  [] way = "depth" ->
                       /\ Return(Res("DepthExceeded", rd.status, maxBmadHelpDepth))
                       /\ log' = seen
                       /\ UNCHANGED << steps, i, usedBmadHelp >>
                  [] OTHER ->
                       /\ Return(Res(lc.err, "", 0))
                       /\ log' = seen
                       /\ UNCHANGED << steps, i, usedBmadHelp >>
    /\ UNCHANGED << cfgVars, fs, storyKey, depth, cancelMark, updVars >>

\* ResolveWorkflow returns: an error, or one (workflow, nextStatus)
ResolveWorkflowReturns ==
    /\ UNCHANGED libVars
    /\ pc = "help"
    /\ \/ /\ Return(Res("HelpFailed", "", 0))
          /\ UNCHANGED << log, steps, i, usedBmadHelp >>
       \/ \E wf \in HelpWorkflows, ns \in StatusValues :
             /\ steps' = << chainStep(wf, ns) >>
             /\ usedBmadHelp' = TRUE
             /\ i' = 0
             /\ log' = Append(log, Ev("helped", depth, 0, 0, wf, ns, 0))
             /\ pc' = "loop"
             /\ UNCHANGED result
    /\ UNCHANGED << cfgVars, fs, storyKey, depth, cancelMark, updVars >>

\* one iteration of the step loop up to the RunSingle call
LoopStep ==
    /\ UNCHANGED libVars
    /\ pc = "loop"
    /\ i < Len(steps)
    /\ log' = log \o StepCalls(progressCallback, depth, i, steps)
    /\ pc' = "running"
    /\ UNCHANGED << cfgVars, fs, runVars, result, cancelMark, updVars >>

\* the ctx passed to Execute is cancelled while the phase runs
Cancel ==
    /\ UNCHANGED libVars
    /\ pc = "running"
    /\ cancelMark = 0
    /\ cancelMark' = Len(log)
    /\ UNCHANGED << cfgVars, fs, pc, runVars, result, log, updVars >>

\* RunSingle returns its exit code
RunSingleReturns ==
    /\ UNCHANGED libVars
    /\ pc = "running"
    /\ \E exitCode \in ExitCodes :
          /\ log' = Append(log, Ev("exit", depth, i + 1, 0, steps[i + 1].Workflow, "",
                                   exitCode))
          /\ IF PhaseFailed(exitCode)
             THEN Return(WorkflowFailed(steps[i + 1], exitCode))
             ELSE /\ pc' = "update"
                  /\ UNCHANGED result
    /\ UNCHANGED << cfgVars, fs, runVars, cancelMark, updVars >>

\* the end of the step loop
LoopEnd ==
    /\ UNCHANGED libVars
    /\ pc = "loop"
    /\ i >= Len(steps)
    /\ IF Recurses(usedBmadHelp)
       THEN /\ depth' = depth + 1
            /\ pc' = "enter"
            /\ UNCHANGED result
       ELSE /\ Return(Res("nil", "", 0))
            /\ UNCHANGED depth
    /\ UNCHANGED << cfgVars, fs, storyKey, steps, i, usedBmadHelp, log,
                    cancelMark, updVars >>

(***************************************************************************)
(* Writer.UpdateStatus(storyKey, steps[i].NextStatus), one action per file *)
(* operation                                                               *)
(***************************************************************************)
\* the step loop not looking at the error of UpdateStatus
UpdateFailsIgnored(why) ==
    /\ updErr' = why
    /\ pc' = "loop"
    /\ UNCHANGED result

\* "if err := e.statusWriter.UpdateStatus(...); err != nil { return err }"
UpdateFails(why) ==
    /\ updErr' = why
    /\ Return(Res("UpdateError", why, 0))

\* lines 24-56: validation, os.ReadFile, yaml.Unmarshal, lookup, yaml.Marshal
UpdateStatusCall ==
    /\ UNCHANGED libVars
    /\ pc = "update"
    /\ LET newStatus == steps[i + 1].NextStatus
           file == fs[FullPath]
           u == Unmarshal(file.data)
       IN  /\ log' = Append(log, Ev("update", depth, i + 1, 0, "", newStatus, 0))
           /\ preDoc' = file
           /\ readsDuring' = {}
           /\ IF ~IsValid(newStatus)
              THEN UpdateFails("invalid") /\ UNCHANGED updatedData
              ELSE \/ \* os.ReadFile fails
                      UpdateFails("read") /\ UNCHANGED updatedData
                   \/ /\ file.exists
                      /\ IF u.err # "nil"
                         THEN UpdateFails("parse") /\ UNCHANGED updatedData
                         ELSE IF storyKey \notin DOMAIN u.DevelopmentStatus
                              THEN UpdateFails("notfound") /\ UNCHANGED updatedData
                         ELSE /\ updatedData' =
                                    Marshal(MapPut(u.DevelopmentStatus, storyKey,
                                                   newStatus))
                              /\ updErr' = "pending"
                              /\ pc' = "upd_open"
                              /\ UNCHANGED result
    /\ UNCHANGED << cfgVars, fs, runVars, cancelMark >>

\* os.WriteFile(tmpPath, ...): the open, which creates or truncates the file
WriteFileOpen ==
    /\ UNCHANGED libVars
    /\ pc = "upd_open"
    /\ \/ /\ fs' = [fs EXCEPT ![TmpPath] = File(<< >>)]
          /\ pc' = "upd_write"
          /\ UNCHANGED << result, updErr >>
       \/ /\ UpdateFails("write")
          /\ UNCHANGED fs
    /\ UNCHANGED << cfgVars, runVars, log, cancelMark, updatedData, preDoc,
                    readsDuring >>

\* os.WriteFile(tmpPath, ...): the data reaches the file line by line
WriteFileWrite ==
    /\ UNCHANGED libVars
    /\ pc = "upd_write"
    /\ LET n == Len(fs[TmpPath].data)
       IN  \/ /\ n < Len(updatedData)
              /\ fs' = [fs EXCEPT ![TmpPath] = File(Append(@.data, updatedData[n + 1]))]
              /\ pc' = IF n + 1 = Len(updatedData) THEN "upd_rename" ELSE "upd_write"
              /\ UNCHANGED << result, updErr >>
           \/ /\ UpdateFails("write")
              /\ UNCHANGED fs
    /\ UNCHANGED << cfgVars, runVars, log, cancelMark, updatedData, preDoc,
                    readsDuring >>

\* os.Remove(tmpPath) left out of the rename failure branch
AfterRemoveSkipped(file, removed) == file

\* os.Remove(tmpPath): the file is gone, or the removal failed; UpdateStatus
\* does not look at the error of os.Remove
AfterRemove(file, removed) == IF removed THEN NoFile ELSE file

\* os.Rename(tmpPath, fullPath), and os.Remove(tmpPath) when it fails
Rename ==
    /\ UNCHANGED libVars
    /\ pc = "upd_rename"
    /\ \/ /\ fs' = [p \in Paths |->
                      IF p = FullPath THEN fs[TmpPath]
                      ELSE IF p = TmpPath THEN NoFile ELSE fs[p]]
          /\ pc' = "upd_ret"
          /\ UNCHANGED << result, updErr >>
       \/ \E removed \in BOOLEAN :
              /\ fs' = [fs EXCEPT ![TmpPath] = AfterRemove(@, removed)]
              /\ updErr' = IF removed THEN "rename" ELSE "rename-kept"
              /\ Return(Res("UpdateError", "rename", 0))
    /\ UNCHANGED << cfgVars, runVars, log, cancelMark, updatedData, preDoc,
                    readsDuring >>

\* UpdateStatus returns nil and the loop goes on to the next step
UpdateStatusReturns ==
    /\ UNCHANGED libVars
    /\ pc = "upd_ret"
    /\ updErr' = "nil"
    /\ log' = Append(log, Ev("updated", depth, i + 1, 0, "", steps[i + 1].NextStatus, 0))
    /\ i' = i + 1
    /\ pc' = "loop"
    /\ UNCHANGED << cfgVars, fs, storyKey, depth, steps, usedBmadHelp, result,
                    cancelMark, updatedData, preDoc, readsDuring >>

InUpdate == pc \in {"upd_open", "upd_write", "upd_rename", "upd_ret"}

\* the process dies inside UpdateStatus
Crash ==
    /\ UNCHANGED libVars
    /\ InUpdate
    /\ pc' = "crashed"
    /\ updErr' = IF pc = "upd_ret" THEN "crash-after-rename" ELSE "crash"
    /\ UNCHANGED << cfgVars, fs, runVars, result, log, cancelMark, updatedData,
                    preDoc, readsDuring >>

\* another process calls Reader.Read (one os.ReadFile) while UpdateStatus runs
ReaderRead ==
    /\ UNCHANGED libVars
    /\ InUpdate
    /\ readsDuring' = readsDuring \cup {fs[FullPath]}
    /\ UNCHANGED << cfgVars, fs, pc, runVars, result, log, cancelMark, updatedData,
                    preDoc, updErr >>

Next ==
    \/ SetRouter
    \/ SetProgressCallback
    \/ SetBmadHelp
    \/ Execute
    \/ Enter
    \/ ResolveWorkflowReturns
    \/ LoopStep
    \/ Cancel
    \/ RunSingleReturns
    \/ LoopEnd
    \/ UpdateStatusCall
    \/ WriteFileOpen
    \/ WriteFileWrite
    \/ Rename
    \/ UpdateStatusReturns
    \/ Crash
    \/ ReaderRead

Spec == Init /\ [][Next]_vars

(***************************************************************************)
(* internal/router called directly: construction from a manifest, entry by *)
(* entry, InsertStepAfter, GetLifecycle and GetWorkflow                    *)
(***************************************************************************)
\* the sequences over S of length n at most
RECURSIVE SeqsUpTo(_, _)
SeqsUpTo(S, n) ==
    IF n = 0 THEN {<< >>}
    ELSE LET shorter == SeqsUpTo(S, n - 1)
         IN  shorter \cup {Append(q, x) : q \in shorter, x \in S}

\* NewRouterFromManifest is followed through at most MaxManifestLen entries
MaxManifestLen == 2

\* the columns of the manifest entries
ManifestWorkflows == {"create-story", "dev-story"}
ManifestTriggers == {"", StatusBacklog, StatusReview, PendingQA}
ManifestNextStatuses == {StatusReview, StatusDone}

ManifestEntries ==
    { WorkflowEntry(w, t, n) :
        w \in ManifestWorkflows, t \in ManifestTriggers, n \in ManifestNextStatuses }

\* the arguments of InsertStepAfter
AfterWorkflows == {"create-story", "dev-story", "code-review"}
NewWorkflows == {"test-automation", "deploy"}
InsertStatuses == {StatusDone}

\* the Router of lines 102-105, before the loop
EmptyRouter ==
    [statusWorkflow |-> EmptyMap, chain |-> << >>, statusChainIndex |-> EmptyMap]

\* the routers the calls start from
BaseRouters ==
    { [r |-> NewRouter, kind |-> "default", phase |-> "built", m |-> << >>],
      [r |-> NewRouterFromManifest(FaithfulManifest), kind |-> "faithful",
       phase |-> "built", m |-> FaithfulManifest],
      [r |-> NewRouterFromManifest(CustomChainManifest), kind |-> "custom",
       phase |-> "built", m |-> CustomChainManifest],
      [r |-> EmptyRouter, kind |-> "manifest", phase |-> "building", m |-> << >>] }

\* the Executor, not used
ExecIdle == ExecInit /\ fs[FullPath] = HandDoc(StatusBacklog)

RouterInit ==
    /\ ExecIdle
    /\ CmdIdle
    /\ PathIdle
    /\ HelpIdle
    /\ ParserIdle
    /\ EpicIdle
    /\ \E b \in BaseRouters :
          /\ rt = b.r
          /\ rtKind = b.kind
          /\ rtPhase = b.phase
          /\ rtPrev = b.r
    /\ rtManifest = << >>
    /\ rtRows = 0
    /\ rtInserts = 0
    /\ rtCall = NoCall
    /\ rtOut = NoOut

\* NewRouterFromManifest: one iteration of the loop over m.Entries
ManifestRow ==
    /\ rtPhase = "building"
    /\ rtRows < MaxManifestLen
    /\ \E entry \in ManifestEntries :
          /\ rt' = ManifestStep(rt, entry)
          /\ rtPrev' = rt'
    /\ rtRows' = rtRows + 1
    /\ UNCHANGED << notRouterVars, rtKind, rtPhase, rtManifest, rtInserts, rtCall, rtOut >>

\* NewRouterFromManifest: return r
ManifestReturn ==
    /\ rtPhase = "building"
    /\ rtPhase' = "built"
    /\ UNCHANGED << notRouterVars, rt, rtKind, rtRows, rtManifest, rtInserts, rtPrev, rtCall,
                    rtOut >>

\* a call of rt.InsertStepAfter(a, b, s)
CallInsertStepAfter ==
    /\ rtPhase = "built"
    /\ \E a \in AfterWorkflows, b \in NewWorkflows, s \in InsertStatuses :
          /\ rt' = InsertStepAfter(rt, a, b, s)
          /\ rtCall' = [op |-> "insert", a |-> a, b |-> b, s |-> s]
    /\ rtPrev' = rt
    /\ rtInserts' = IF rt' # rt THEN rtInserts + 1 ELSE rtInserts
    /\ rtOut' = NoOut
    /\ UNCHANGED << notRouterVars, rtKind, rtPhase, rtRows, rtManifest >>

\* a call of rt.GetLifecycle(s) and of rt.GetWorkflow(s)
CallGetLifecycle ==
    /\ rtPhase = "built"
    /\ \E s \in StatusValues :
          rtOut' = [op |-> "get", s |-> s, lc |-> GetLifecycle(rt, s),
                    wf |-> GetWorkflow(rt, s)]
    /\ UNCHANGED << notRouterVars, rt, rtKind, rtPhase, rtRows, rtManifest, rtInserts,
                    rtPrev, rtCall >>

RouterNext ==
    \/ ManifestRow
    \/ ManifestReturn
    \/ CallInsertStepAfter
    \/ CallGetLifecycle

RouterSpec == RouterInit /\ [][RouterNext]_vars

(***************************************************************************)
(* internal/router: NewRouterFromManifest called on a given manifest and   *)
(* followed entry by entry, then InsertStepAfter calls                     *)
(***************************************************************************)
ManifestInit ==
    /\ ExecIdle
    /\ CmdIdle
    /\ PathIdle
    /\ HelpIdle
    /\ ParserIdle
    /\ EpicIdle
    /\ \/ /\ rtKind = "manifest"
          /\ rtManifest \in SeqsUpTo(ManifestEntries, MaxManifestLen)
          /\ rt = EmptyRouter
          /\ rtPhase = "building"
       \/ \E b \in BaseRouters :
             /\ b.phase = "built"
             /\ rtKind = b.kind
             /\ rtManifest = b.m
             /\ rt = b.r
             /\ rtPhase = "built"
    /\ rtPrev = rt
    /\ rtRows = 0
    /\ rtInserts = 0
    /\ rtCall = NoCall
    /\ rtOut = NoOut

\* NewRouterFromManifest: the loop body for the next entry of m.Entries
LoopOverEntries ==
    /\ rtPhase = "building"
    /\ rtRows < Len(rtManifest)
    /\ rt' = ManifestStep(rt, rtManifest[rtRows + 1])
    /\ rtPrev' = rt'
    /\ rtRows' = rtRows + 1
    /\ UNCHANGED << notRouterVars, rtKind, rtPhase, rtManifest, rtInserts, rtCall, rtOut >>

\* NewRouterFromManifest: return r, after the last entry
LoopReturns ==
    /\ rtPhase = "building"
    /\ rtRows = Len(rtManifest)
    /\ rtPhase' = "built"
    /\ UNCHANGED << notRouterVars, rt, rtKind, rtRows, rtManifest, rtInserts, rtPrev, rtCall,
                    rtOut >>

ManifestNext ==
    \/ LoopOverEntries
    \/ LoopReturns
    \/ CallInsertStepAfter

ManifestSpec == ManifestInit /\ [][ManifestNext]_vars

(***************************************************************************)
(* internal/claude: DefaultParser.Parse, its goroutine and the consumer of *)
(* the channel                                                             *)
(***************************************************************************)
\* the reader holds at most MaxLines lines
MaxLines == 3

ParserInit ==
    /\ ExecIdle
    /\ CmdIdle
    /\ PathIdle
    /\ HelpIdle
    /\ RouterIdle
    /\ EpicIdle
    /\ psInput \in SeqsUpTo(Lines, MaxLines)
    /\ psPos = 0
    /\ psPc = "scan"
    /\ psEvent = NoEvent
    /\ psOut = << >>
    /\ psStopped = FALSE
    /\ psMode = "parse"
    /\ psHandled = 0

\* scanner.Scan() returns false: end of input, or a line too long for the
\* buffer; the goroutine returns and the deferred close(events) runs
ScanEnds ==
    /\ psPc = "scan"
    /\ psMode = "parse"
    /\ \/ psPos = Len(psInput)
       \/ psPos < Len(psInput) /\ LineAction(psInput[psPos + 1]) = "stop"
    /\ psPc' = "closed"
    /\ UNCHANGED << notParserVars, psInput, psPos, psEvent, psOut, psStopped, psMode,
                    psHandled >>

\* the loop of Parse going on to the next line without sending the Event
ScanLineDropsEvent ==
    /\ psPc = "scan"
    /\ psMode = "parse"
    /\ psPos < Len(psInput)
    /\ LineAction(psInput[psPos + 1]) # "stop"
    /\ psPos' = psPos + 1
    /\ UNCHANGED << notParserVars, psInput, psPc, psEvent, psOut, psStopped, psMode,
                    psHandled >>

\* scanner.Scan() returns a line that is skipped, or decoded into an Event
ScanLine ==
    /\ psPc = "scan"
    /\ psMode = "parse"
    /\ psPos < Len(psInput)
    /\ LET line == psInput[psPos + 1]
       IN  /\ LineAction(line) # "stop"
           /\ psPos' = psPos + 1
           /\ IF LineAction(line) = "send"
              THEN /\ psEvent' = NewEventFromStream(JsonUnmarshal(line).ev)
                   /\ psPc' = "send"
              ELSE UNCHANGED << psEvent, psPc >>
    /\ UNCHANGED << notParserVars, psInput, psOut, psStopped, psMode, psHandled >>

\* events <- event on the unbuffered channel, and the receive of a consumer
\* that is not inside its handler
Receive ==
    /\ psPc = "send"
    /\ ~psStopped
    /\ psHandled = Len(psOut)
    /\ psOut' = Append(psOut, [from |-> psPos, ev |-> psEvent])
    /\ psPc' = "scan"
    /\ UNCHANGED << notParserVars, psInput, psPos, psEvent, psStopped, psMode, psHandled >>

\* the handler returns from the event received last
HandlerReturns ==
    /\ psMode = "parse"
    /\ psHandled < Len(psOut)
    /\ psHandled' = psHandled + 1
    /\ UNCHANGED << notParserVars, psInput, psPos, psPc, psEvent, psOut, psStopped,
                    psMode >>

ParserNext ==
    \/ ScanEnds
    \/ ScanLine
    \/ Receive
    \/ HandlerReturns

ParserSpec == ParserInit /\ [][ParserNext]_vars

\* the consumer stops receiving before the channel is closed
ConsumerStops ==
    /\ psPc \in {"scan", "send"}
    /\ ~psStopped
    /\ psStopped' = TRUE
    /\ UNCHANGED << notParserVars, psInput, psPos, psPc, psEvent, psOut, psMode,
                    psHandled >>

AbortNext ==
    \/ ScanEnds
    \/ ScanLine
    \/ Receive
    \/ HandlerReturns
    \/ ConsumerStops

\* the goroutine of Parse is scheduled whenever it can take a step, the handler
\* returns, and a consumer that has not stopped receives what is sent
AbortSpec ==
    /\ ParserInit
    /\ [][AbortNext]_vars
    /\ WF_vars(ScanEnds)
    /\ WF_vars(ScanLine)
    /\ WF_vars(Receive)
    /\ WF_vars(HandlerReturns)

(***************************************************************************)
(* runClaude: one loop that scans, decodes and handles each line, next to  *)
(* Parse and its consumer                                                  *)
(***************************************************************************)
\* what the loop of runClaude does with the next line: no test for the empty
\* line, which json.Unmarshal rejects
RunClaudeLineAction(line) ==
    IF line.long THEN "stop"
    ELSE IF JsonUnmarshal(line).err # "nil" THEN "skip"
    ELSE "handle"

DeliveryInit ==
    /\ ExecIdle
    /\ CmdIdle
    /\ PathIdle
    /\ HelpIdle
    /\ RouterIdle
    /\ EpicIdle
    /\ psInput \in SeqsUpTo(Lines, MaxLines)
    /\ psPos = 0
    /\ psPc = "scan"
    /\ psEvent = NoEvent
    /\ psOut = << >>
    /\ psStopped = FALSE
    /\ psMode \in {"parse", "runClaude"}
    /\ psHandled = 0

\* runClaude: scanner.Scan() returns a line; json.Unmarshal
RunClaudeScan ==
    /\ psMode = "runClaude"
    /\ psPc = "scan"
    /\ psPos < Len(psInput)
    /\ LET line == psInput[psPos + 1]
       IN  /\ RunClaudeLineAction(line) # "stop"
           /\ psPos' = psPos + 1
           /\ IF RunClaudeLineAction(line) = "handle"
              THEN /\ psEvent' = NewEventFromStream(JsonUnmarshal(line).ev)
                   /\ psPc' = "handle"
              ELSE UNCHANGED << psEvent, psPc >>
    /\ UNCHANGED << notParserVars, psInput, psOut, psStopped, psMode, psHandled >>

\* runClaude: the switch on event.Type, in the loop body
RunClaudeSwitch ==
    /\ psMode = "runClaude"
    /\ psPc = "handle"
    /\ psOut' = Append(psOut, [from |-> psPos, ev |-> psEvent])
    /\ psHandled' = psHandled + 1
    /\ psPc' = "scan"
    /\ UNCHANGED << notParserVars, psInput, psPos, psEvent, psStopped, psMode >>

\* runClaude: scanner.Scan() returns false
RunClaudeEnds ==
    /\ psMode = "runClaude"
    /\ psPc = "scan"
    /\ \/ psPos = Len(psInput)
       \/ psPos < Len(psInput) /\ RunClaudeLineAction(psInput[psPos + 1]) = "stop"
    /\ psPc' = "closed"
    /\ UNCHANGED << notParserVars, psInput, psPos, psEvent, psOut, psStopped, psMode,
                    psHandled >>

DeliveryNext ==
    \/ ScanEnds
    \/ ScanLine
    \/ Receive
    \/ HandlerReturns
    \/ RunClaudeScan
    \/ RunClaudeSwitch
    \/ RunClaudeEnds

DeliverySpec == DeliveryInit /\ [][DeliveryNext]_vars

(***************************************************************************)
(* internal/status: a call of Reader.GetEpicStories on a document that     *)
(* reads and parses                                                        *)
(***************************************************************************)
\* the document holds at most MaxKeys story keys
MaxKeys == 4

\* the story keys a document may hold
EpicKeys ==
    { << "6", "-", "1", "0", "-", "x" >>,
      << "6", "-", "2", "-", "y" >>,
      << "6", "-", "1", "-", "z" >>,
      << "7", "-", "1", "-", "q" >>,
      << "6", "-", "0", "1", "-", "w" >>,
      << "6", "-", "x", "-", "1" >>,
      << "1", "6", "-", "3", "-", "x" >>,
      << "6", "-", "3" >>,
      << "6", "6" >> }

EpicIDs == { << "6" >>, << "7" >>, << "1" >> }

EpicInit ==
    /\ ExecIdle
    /\ CmdIdle
    /\ PathIdle
    /\ HelpIdle
    /\ RouterIdle
    /\ ParserIdle
    /\ esKeys \in {K \in SUBSET EpicKeys : Cardinality(K) <= MaxKeys}
    /\ esEpic \in EpicIDs
    /\ esPc = "range"
    /\ esLeft = esKeys
    /\ esStories = << >>
    /\ esOut = NoStories

\* one iteration of "for key := range sprintStatus.DevelopmentStatus": Go
\* produces the keys of a map in no fixed order
RangeKey ==
    /\ esPc = "range"
    /\ \E key \in esLeft :
          /\ esStories' = Collect(esStories, key, esEpic)
          /\ esLeft' = esLeft \ {key}
    /\ UNCHANGED << notEpicVars, esKeys, esEpic, esPc, esOut >>

\* the range is over
RangeEnds ==
    /\ esPc = "range"
    /\ esLeft = {}
    /\ IF Len(esStories) = 0
       THEN /\ esOut' = [err |-> "no stories found for epic", keys |-> << >>]
            /\ esPc' = "done"
       ELSE /\ esPc' = "sort"
            /\ UNCHANGED esOut
    /\ UNCHANGED << notEpicVars, esKeys, esEpic, esLeft, esStories >>

\* sort.Slice, the extraction of the keys and the return
SortAndReturn ==
    /\ esPc = "sort"
    /\ \E sorted \in SortSlice(esStories) :
          /\ esStories' = sorted
          /\ esOut' = [err |-> "nil", keys |-> [k \in 1..Len(sorted) |-> sorted[k].key]]
    /\ esPc' = "done"
    /\ UNCHANGED << notEpicVars, esKeys, esEpic, esLeft >>

EpicNext ==
    \/ RangeKey
    \/ RangeEnds
    \/ SortAndReturn

EpicSpec == EpicInit /\ [][EpicNext]_vars

(***************************************************************************)
(* internal/bmadhelp: a call of ParseResponse                              *)
(***************************************************************************)
\* a response is made of at most MaxPieces pieces of text
MaxPieces == 3

HelpInit ==
    /\ ExecIdle
    /\ CmdIdle
    /\ PathIdle
    /\ RouterIdle
    /\ ParserIdle
    /\ EpicIdle
    /\ prResponse \in SeqsUpTo(Pieces, MaxPieces)
    /\ prOut = NoRecommendation

CallParseResponse ==
    /\ prOut = NoRecommendation
    /\ prOut' = ParseResponse(prResponse)
    /\ UNCHANGED << notHelpVars, prResponse >>

HelpNext == CallParseResponse

HelpSpec == HelpInit /\ [][HelpNext]_vars

(***************************************************************************)
(* internal/status: a call of ResolvePath                                  *)
(***************************************************************************)
\* the inputs of ResolvePath: the tests' values, and the empty string
EnvValues == {"", "/env/override.yaml"}
ExplicitPaths == {"", "/explicit/status.yaml"}
BasePaths == {"", "/base"}

\* the candidate paths under every base directory
DiskPaths == {Join(b, StatusPaths[j]) : b \in BasePaths, j \in 1..Len(StatusPaths)}

PathInit ==
    /\ ExecIdle
    /\ CmdIdle
    /\ RouterIdle
    /\ ParserIdle
    /\ EpicIdle
    /\ HelpIdle
    /\ rpEnv \in EnvValues
    /\ rpBasePath \in BasePaths
    /\ rpStatusPath \in ExplicitPaths
    /\ rpDisk \in [DiskPaths -> {"absent", "file", "directory"}]
    /\ rpOut = << >>
    /\ stDocs = EmptyMap
    /\ stUpd = NoUpdate
    /\ stGot = NoRead

CallResolvePath ==
    /\ rpOut = << >>
    /\ rpOut' = ResolvePath(rpBasePath, rpStatusPath, rpEnv, rpDisk)
    /\ UNCHANGED << notPathVars, rpEnv, rpBasePath, rpStatusPath, rpDisk, stDocs, stUpd,
                    stGot >>

PathNext == CallResolvePath

PathSpec == PathInit /\ [][PathNext]_vars

(***************************************************************************)
(* internal/status: a Reader and a Writer made for the same base directory, *)
(* environment and configuration; one UpdateStatus, then one               *)
(* GetStoryStatus                                                          *)
(***************************************************************************)
\* a document as BMAD writes it: a top-level field, a comment, the statuses
StoreDoc(s) ==
    File(<< FieldLine, CommentLine, HdrLine, EntryLine("STORY-2", StatusBacklog),
            EntryLine("STORY-1", s) >>)

StoreDocs == {NoFile, StoreDoc(StatusBacklog), StoreDoc(StatusReview)}

\* the paths a document may be at
StorePaths ==
    DiskPaths \cup {<< e >> : e \in EnvValues \ {""}}
              \cup {<< x >> : x \in ExplicitPaths \ {""}}

\* the statuses UpdateStatus is called with
NewStatuses == {StatusInProgress, StatusDone}

StoreInit ==
    /\ ExecIdle
    /\ CmdIdle
    /\ RouterIdle
    /\ ParserIdle
    /\ EpicIdle
    /\ HelpIdle
    /\ rpEnv \in EnvValues
    /\ rpBasePath \in BasePaths
    /\ rpStatusPath \in ExplicitPaths
    /\ stDocs \in [StorePaths -> StoreDocs]
    /\ \A b \in BasePaths \ {rpBasePath} :
          \A j \in 1..Len(StatusPaths) : stDocs[Join(b, StatusPaths[j])] = NoFile
    /\ rpDisk = [q \in DiskPaths |-> IF stDocs[q].exists THEN "file" ELSE "absent"]
    /\ rpOut = << >>
    /\ stUpd = NoUpdate
    /\ stGot = NoRead

\* NewWriter(basePath).UpdateStatus(storyKey, newStatus), with no I/O failure
\* after the read
WriterUpdateStatus ==
    /\ stUpd = NoUpdate
    /\ \E newStatus \in NewStatuses :
          LET fullPath == WriterPath(rpBasePath)
              u == UpdatedData(stDocs[fullPath], "STORY-1", newStatus)
          IN  /\ stUpd' = [err |-> u.err, key |-> "STORY-1", status |-> newStatus]
              /\ stDocs' = IF u.err = "nil"
                           THEN [stDocs EXCEPT ![fullPath] = File(u.data)]
                           ELSE stDocs
    /\ UNCHANGED << notPathVars, rpEnv, rpBasePath, rpStatusPath, rpDisk, rpOut, stGot >>

\* Reader.GetStoryStatus(storyKey) on the path NewReader or NewReaderWithPath
\* resolved, after UpdateStatus returned
ReaderGetStoryStatus ==
    /\ rpOut # << >>
    /\ stUpd # NoUpdate
    /\ stGot = NoRead
    /\ stGot' = GetStoryStatus(stDocs[rpOut], stUpd.key)
    /\ UNCHANGED << notPathVars, rpEnv, rpBasePath, rpStatusPath, rpDisk, rpOut, stDocs,
                    stUpd >>

StoreNext ==
    \/ CallResolvePath
    \/ WriterUpdateStatus
    \/ ReaderGetStoryStatus

StoreSpec == StoreInit /\ [][StoreNext]_vars

(***************************************************************************)
(* The story command: cli "story [--dry-run] <story-key> [story-key...]"   *)
(* driving one Executor over its arguments, and the same command given     *)
(* again                                                                   *)
(***************************************************************************)
\* the routers of the Executor of the command: the default one, and the one
\* built from a manifest found on disk
StoryRouters == {NewRouter, NewRouterFromManifest(TwoRowManifest)}

\* the documents the command finds: both stories, as yaml.Marshal writes them
StoryDocs ==
    { File(<< HdrLine, EntryLine("STORY-1", a), EntryLine("STORY-2", b) >>) :
        a \in {StatusBacklog, StatusReview, StatusDone},
        b \in {StatusReview, StatusDone} }

\* the argument lists: one story or more, none given twice
ArgLists ==
    { << "STORY-1" >>, << "STORY-2" >>, << "STORY-1", "STORY-2" >>,
      << "STORY-2", "STORY-1" >> }

StoryInit ==
    /\ RouterIdle
    /\ ParserIdle
    /\ EpicIdle
    /\ HelpIdle
    /\ PathIdle
    /\ CmdIdle
    /\ router \in StoryRouters
    /\ progressCallback = FALSE
    /\ bmadHelp = FALSE
    /\ fs \in {[p \in Paths |-> IF p = FullPath THEN d ELSE NoFile] : d \in StoryDocs}
    /\ pc = "idle"
    /\ storyKey = ""
    /\ depth = 0
    /\ steps = << >>
    /\ i = 0
    /\ usedBmadHelp = FALSE
    /\ result = Res("none", "", 0)
    /\ log = << >>
    /\ cancelMark = 0
    /\ updatedData = << >>
    /\ preDoc = NoFile
    /\ updErr = "none"
    /\ readsDuring = {}

\* the command is given its arguments
StoryCommand ==
    /\ cmdPc = "off"
    /\ \E args \in ArgLists, dry \in BOOLEAN :
          /\ cmdArgs' = args
          /\ cmdDryRun' = dry
    /\ cmdAt' = 1
    /\ cmdPc' = "run"
    /\ cmdCount' = 1
    /\ cmdErr' = "none"
    /\ UNCHANGED << execVars, callVars, cmdPlan, cmdRuns >>

\* the same command is given again after it ended
StoryCommandAgain ==
    /\ cmdPc = "ended"
    /\ cmdCount = 1
    /\ cmdAt' = 1
    /\ cmdPc' = "run"
    /\ cmdCount' = 2
    /\ cmdErr' = "none"
    /\ UNCHANGED << execVars, callVars, cmdArgs, cmdDryRun, cmdPlan, cmdRuns >>

\* the command calls Execute for the argument it is at
StoryExecute ==
    /\ cmdPc = "run"
    /\ ~cmdDryRun
    /\ Execute
    /\ storyKey' = cmdArgs[cmdAt]

\* what the command does with the error of Execute or GetSteps: it goes on to
\* the next argument after nil and after ErrStoryComplete, and ends at the
\* last argument or at any other error
StoryGoesOn(kind) ==
    IF kind \in {"nil", ErrStoryComplete}
    THEN IF cmdAt < Len(cmdArgs)
         THEN /\ cmdAt' = cmdAt + 1
              /\ UNCHANGED << cmdPc, cmdErr >>
         ELSE /\ cmdPc' = "ended"
              /\ cmdErr' = "nil"
              /\ UNCHANGED cmdAt
    ELSE /\ cmdPc' = "ended"
         /\ cmdErr' = kind
         /\ UNCHANGED cmdAt

\* Execute returns to the command
StoryExecuteReturns ==
    /\ cmdPc = "run"
    /\ pc = "done"
    /\ cmdRuns' = Append(cmdRuns, [cmd |-> cmdCount, key |-> storyKey, op |-> "Execute",
                                   res |-> result, steps |-> << >>, log |-> log])
    /\ StoryGoesOn(result.kind)
    /\ pc' = "idle"
    /\ UNCHANGED << cfgVars, fs, runVars, result, log, cancelMark, updVars, callVars,
                    cmdArgs, cmdDryRun, cmdCount, cmdPlan >>

\* GetSteps running the first step it finds
GetStepsCallRunsFirst(key) ==
    LET rd == GetStoryStatus(fs[FullPath], key)
        lc == GetLifecycle(router, rd.status)
    IN  /\ cmdPlan' = IF rd.err # "nil" THEN [err |-> "StatusError", steps |-> << >>]
                      ELSE lc
        /\ log' = IF rd.err = "nil" /\ lc.err = "nil"
                  THEN Append(log, Ev("run", 0, 1, 0, lc.steps[1].Workflow, "", 0))
                  ELSE log
        /\ UNCHANGED << cfgVars, fs, pc, runVars, result, cancelMark, updVars >>

\* GetSteps asking the router for the next workflow only
GetStepsCallFirstOnly(key) ==
    LET rd == GetStoryStatus(fs[FullPath], key)
        lc == GetLifecycle(router, rd.status)
    IN  /\ cmdPlan' = IF rd.err # "nil" THEN [err |-> "StatusError", steps |-> << >>]
                      ELSE [err |-> lc.err,
                            steps |-> SubSeq(lc.steps, 1, IF Len(lc.steps) > 0 THEN 1 ELSE 0)]
        /\ UNCHANGED execVars

\* Executor.GetSteps(key): the status is read, the router is asked; the
\* runner and the writer are not called
GetStepsCall(key) ==
    LET rd == GetStoryStatus(fs[FullPath], key)
        lc == GetLifecycle(router, rd.status)
    IN  /\ cmdPlan' = IF rd.err # "nil" THEN [err |-> "StatusError", steps |-> << >>]
                      ELSE lc
        /\ UNCHANGED execVars

\* the command with --dry-run calls GetSteps for the argument it is at
StoryGetSteps ==
    /\ cmdPc = "run"
    /\ cmdDryRun
    /\ pc = "idle"
    /\ GetStepsCall(cmdArgs[cmdAt])
    /\ cmdRuns' = Append(cmdRuns, [cmd |-> cmdCount, key |-> cmdArgs[cmdAt],
                                   op |-> "GetSteps", res |-> Res(cmdPlan'.err, "", 0),
                                   steps |-> cmdPlan'.steps, log |-> << >>])
    /\ StoryGoesOn(cmdPlan'.err)
    /\ UNCHANGED << callVars, cmdArgs, cmdDryRun, cmdCount >>

StoryNext ==
    \/ StoryCommand
    \/ StoryCommandAgain
    \/ StoryExecute
    \/ StoryExecuteReturns
    \/ StoryGetSteps
    \/ Enter
    \/ LoopStep
    \/ RunSingleReturns
    \/ LoopEnd
    \/ UpdateStatusCall
    \/ WriteFileOpen
    \/ WriteFileWrite
    \/ Rename
    \/ UpdateStatusReturns

StorySpec == StoryInit /\ [][StoryNext]_vars

(***************************************************************************)
(* Reading the call log                                                    *)
(***************************************************************************)
\* the events of one kind made by the executeWithDepth call of depth d
At(d, kind) == SelectSeq(log, LAMBDA e : e.d = d /\ e.ev = kind)

Kind(kind) == SelectSeq(log, LAMBDA e : e.ev = kind)

HasRead(d) == Len(At(d, "read")) > 0

\* the status the executeWithDepth call of depth d read
ReadAt(d) == At(d, "read")[1].st

\* the RunSingle and UpdateStatus calls of depth d, in order, as <<call, argument>>
CallsAt(d) ==
    LET evs == SelectSeq(log, LAMBDA e : e.d = d /\ e.ev \in {"run", "update"})
    IN  [j \in 1..Len(evs) |->
            << evs[j].ev, IF evs[j].ev = "run" THEN evs[j].wf ELSE evs[j].st >>]

\* run step 1, update to its NextStatus, run step 2, ...
Expected(stps) ==
    [j \in 1..(2 * Len(stps)) |->
        IF j % 2 = 1 THEN << "run", stps[(j + 1) \div 2].Workflow >>
        ELSE << "update", stps[j \div 2].NextStatus >>]

IsPrefix(a, b) == Len(a) <= Len(b) /\ SubSeq(b, 1, Len(a)) = a

AllExitsZero == \A p \in 1..Len(log) : log[p].ev = "exit" => log[p].code = 0

\* no UpdateStatus call failed on the file system (read, write, rename)
NoIOFailure == result.kind = "UpdateError" => result.wf = "invalid"

\* the status of the story in the document on disk
Persisted == GetStoryStatus(fs[FullPath], storyKey).status

(***************************************************************************)
(* C1: fail-fast                                                           *)
(***************************************************************************)
\* C1: when the phase of step k of the current lifecycle is the first to return
\* a non-zero exit code, Execute has called RunSingle exactly k times, for steps
\* 1..k in chain order, has called UpdateStatus exactly k-1 times, for steps
\* 1..k-1, makes no further call, and returns the workflow-failed error naming
\* step k's workflow and its exit code.
C1_FailFast ==
    \A p \in 1..Len(log) :
        (log[p].ev = "exit" /\ log[p].code # 0) =>
            LET d == log[p].d
                R == At(d, "run")
                U == At(d, "update")
                X == At(d, "exit")
                k == Len(X)
            IN  /\ p = Len(log)
                /\ d = depth
                /\ \A j \in 1..(k - 1) : X[j].code = 0
                /\ k <= Len(steps)
                /\ ~usedBmadHelp => steps = GetLifecycle(router, ReadAt(d)).steps
                /\ Len(R) = k
                /\ \A j \in 1..k : R[j].wf = steps[j].Workflow
                /\ Len(U) = k - 1
                /\ \A j \in 1..(k - 1) : U[j].st = steps[j].NextStatus
                /\ pc = "done"
                /\ result = Res("WorkflowFailed", steps[k].Workflow, log[p].code)

\* scenario S4: backlog, the second phase fails, ready-for-dev is persisted
C1_Witness ==
    /\ pc = "done"
    /\ router = NewRouter
    /\ HasRead(0) /\ ReadAt(0) = StatusBacklog
    /\ result = Res("WorkflowFailed", "dev-story", 1)
    /\ Len(Kind("run")) = 2
    /\ Len(Kind("update")) = 1
    /\ Persisted = StatusReadyForDev

(***************************************************************************)
(* C2: the happy path                                                      *)
(***************************************************************************)
\* C2: for a story whose status the router maps, Execute calls RunSingle and
\* UpdateStatus alternately along GetLifecycle(status): each UpdateStatus call
\* directly follows the zero exit of its phase and carries that step's
\* NextStatus, and each later phase starts only after the update of the step
\* before it returned.  When every phase exits 0 and every update is accepted,
\* Execute has run every step and returns nil.  The default router gives
\* create-story, dev-story, code-review, git-commit with ready-for-dev, review,
\* done, done from backlog, and code-review, git-commit with done, done from
\* review.
C2_HappyPath ==
    (HasRead(depth) /\ GetLifecycle(router, ReadAt(depth)).err = "nil") =>
        LET life == GetLifecycle(router, ReadAt(depth)).steps
            calls == CallsAt(depth)
        IN  /\ IsPrefix(calls, Expected(life))
            /\ \A p \in 1..Len(log) :
                  /\ log[p].ev = "update" =>
                        /\ p > 1
                        /\ log[p - 1].ev = "exit"
                        /\ log[p - 1].code = 0
                        /\ log[p - 1].i = log[p].i
                  /\ (log[p].ev \in {"progress", "run"} /\ log[p].i > 1) =>
                        /\ p > 1
                        /\ \/ log[p].ev = "run" /\ log[p - 1].ev = "progress"
                           \/ /\ log[p - 1].ev = "updated"
                              /\ log[p - 1].i = log[p].i - 1
            /\ (pc = "done" /\ AllExitsZero /\ result.kind # "UpdateError") =>
                  /\ result = Res("nil", "", 0)
                  /\ calls = Expected(life)
                  /\ (router = NewRouter /\ ReadAt(depth) = StatusBacklog) =>
                        calls = << << "run", "create-story" >>,
                                   << "update", StatusReadyForDev >>,
                                   << "run", "dev-story" >>,
                                   << "update", StatusReview >>,
                                   << "run", "code-review" >>,
                                   << "update", StatusDone >>,
                                   << "run", "git-commit" >>,
                                   << "update", StatusDone >> >>
                  /\ (router = NewRouter /\ ReadAt(depth) = StatusReview) =>
                        calls = << << "run", "code-review" >>,
                                   << "update", StatusDone >>,
                                   << "run", "git-commit" >>,
                                   << "update", StatusDone >> >>

\* scenario S1: backlog to done with the default router
C2_Witness ==
    /\ pc = "done"
    /\ router = NewRouter
    /\ result = Res("nil", "", 0)
    /\ depth = 0
    /\ ReadAt(0) = StatusBacklog
    /\ Len(Kind("updated")) = 4
    /\ Persisted = StatusDone

(***************************************************************************)
(* C3: the fallback depth limit                                            *)
(***************************************************************************)
Helped == Kind("helped")

\* the router has no mapping for s and s is not done
Unroutable(s) == GetLifecycle(router, s).err = ErrUnknownStatus

\* Execute returned, the fallback was used, and nothing failed but, possibly, the
\* validation of a status
FallbackRunEnded ==
    /\ pc = "done"
    /\ Len(Helped) > 0
    /\ AllExitsZero
    /\ NoIOFailure
    /\ result.kind # "HelpFailed"

\* C3 as claimed: if every next_status the fallback returns is outside the
\* recognised set and every phase exits 0, Execute ends after exactly 3
\* fallback invocations with the depth-exceeded error.
C3_Original ==
    (FallbackRunEnded /\ \A j \in 1..Len(Helped) : ~IsValid(Helped[j].st)) =>
        /\ result.kind = "DepthExceeded"
        /\ Len(Kind("help")) = maxBmadHelpDepth

\* C3 as amended: Execute never invokes the fallback more than 3 times.  If
\* every next_status the fallback returns is a valid status the router has no
\* mapping for, and every phase exits 0 and every update succeeds, Execute ends
\* after exactly 3 fallback invocations, 3 phases and 3 updates with the
\* depth-exceeded error.  If the next_status the fallback returns is outside the
\* recognised set, UpdateStatus rejects it and Execute returns that error after
\* exactly 1 fallback invocation and 1 phase, without recursing.
C3_DepthLimit ==
    /\ Len(Kind("help")) <= maxBmadHelpDepth
    /\ FallbackRunEnded =>
          /\ (\A j \in 1..Len(Helped) :
                 IsValid(Helped[j].st) /\ Unroutable(Helped[j].st)) =>
                /\ result.kind = "DepthExceeded"
                /\ result.code = maxBmadHelpDepth
                /\ depth = maxBmadHelpDepth
                /\ Len(Kind("help")) = maxBmadHelpDepth
                /\ Len(Kind("run")) = maxBmadHelpDepth
                /\ Len(Kind("updated")) = maxBmadHelpDepth
          /\ ~IsValid(Helped[1].st) =>
                /\ result = Res("UpdateError", "invalid", 0)
                /\ depth = 0
                /\ Len(Kind("help")) = 1
                /\ Len(Kind("run")) = 1
                /\ Len(Kind("updated")) = 0

\* three fallback answers, each valid and unroutable, then the depth error
C3_Witness ==
    /\ pc = "done"
    /\ result.kind = "DepthExceeded"
    /\ Len(Kind("help")) = maxBmadHelpDepth
    /\ Len(Kind("updated")) = maxBmadHelpDepth
    /\ \A j \in 1..Len(Helped) : IsValid(Helped[j].st)

(***************************************************************************)
(* C4: an unknown status the fallback resolves                             *)
(***************************************************************************)
\* C4: for a story whose status the router does not map, with a fallback that
\* answers (code-review, done), Execute runs code-review once, updates the
\* status to done, recurses with depth 1, reads done and returns
\* ErrStoryComplete.
C4_FallbackResolves ==
    (/\ FallbackRunEnded
     /\ Unroutable(ReadAt(0))
     /\ Helped[1].wf = "code-review"
     /\ Helped[1].st = StatusDone) =>
        /\ result = Res(ErrStoryComplete, "", 0)
        /\ depth = 1
        /\ CallsAt(0) = << << "run", "code-review" >>, << "update", StatusDone >> >>
        /\ Len(Kind("run")) = 1
        /\ Len(Kind("update")) = 1
        /\ Len(Kind("help")) = 1
        /\ Len(Kind("read")) = 2
        /\ ReadAt(1) = StatusDone
        /\ Persisted = StatusDone

\* scenario S5: pending-qa, the fallback answers (code-review, done)
C4_Witness ==
    /\ pc = "done"
    /\ HasRead(0) /\ ReadAt(0) = PendingQA
    /\ Len(Helped) = 1
    /\ Helped[1].wf = "code-review"
    /\ Helped[1].st = StatusDone
    /\ result.kind = ErrStoryComplete
    /\ depth = 1

(***************************************************************************)
(* C5: an unknown status without a fallback                                *)
(***************************************************************************)
\* C5: for a story whose status the router does not map, with no fallback
\* installed, Execute returns ErrUnknownStatus at once: the status read is its
\* only call (no phase, no progress callback, no status update, no fallback).
C5_NoFallback ==
    (~bmadHelp /\ HasRead(0) /\ Unroutable(ReadAt(0))) =>
        /\ pc = "done"
        /\ result = Res(ErrUnknownStatus, "", 0)
        /\ Len(log) = 1
        /\ fs[FullPath] \in InitDocs

\* scenario S6: pending-qa and no fallback
C5_Witness ==
    /\ ~bmadHelp
    /\ pc = "done"
    /\ HasRead(0) /\ ReadAt(0) = PendingQA
    /\ result.kind = ErrUnknownStatus

(***************************************************************************)
(* C6: a story that is done                                                *)
(***************************************************************************)
\* C6: for a story whose status is done, Execute returns ErrStoryComplete and
\* the status read is its only call: no phase, no progress callback, no status
\* update (and no fallback), whatever is installed.
C6_DoneStory ==
    (HasRead(0) /\ ReadAt(0) = StatusDone) =>
        /\ pc = "done"
        /\ result = Res(ErrStoryComplete, "", 0)
        /\ Len(log) = 1
        /\ fs[FullPath] \in InitDocs

\* scenario S3, with a callback and a fallback installed
C6_Witness ==
    /\ progressCallback
    /\ bmadHelp
    /\ pc = "done"
    /\ HasRead(0) /\ ReadAt(0) = StatusDone
    /\ result.kind = ErrStoryComplete

(***************************************************************************)
(* C7: cancellation                                                        *)
(***************************************************************************)
\* C7 as claimed: once ctx is cancelled while phase i runs, Execute calls
\* neither UpdateStatus for phase i nor RunSingle for phase i+1, and it does
\* not return success.
C7_Original ==
    cancelMark > 0 =>
        /\ \A p \in (cancelMark + 1)..Len(log) : log[p].ev \notin {"update", "run"}
        /\ pc = "done" => result.kind # "nil"

(***************************************************************************)
(* C8: the progress callback                                               *)
(***************************************************************************)
\* the number of steps of the lifecycle of depth d
TotalSteps(d) ==
    IF Len(At(d, "helped")) > 0 THEN 1
    ELSE Len(GetLifecycle(router, ReadAt(d)).steps)

\* C8: with a callback installed, every RunSingle call is directly preceded by
\* one callback call carrying (i, n, workflow): i the 1-based index of the step,
\* n the number of steps of the current lifecycle, workflow the phase about to
\* run; every callback call is directly followed by the RunSingle call of its
\* phase, so there is exactly one per attempted phase and none for a phase that
\* is not attempted.  With no callback installed there is no callback call.
C8_Progress ==
    /\ ~progressCallback => Len(Kind("progress")) = 0
    /\ progressCallback =>
          /\ Len(Kind("progress")) = Len(Kind("run"))
          /\ \A p \in 1..Len(log) :
                /\ log[p].ev = "run" =>
                      /\ p > 1
                      /\ log[p - 1] = Ev("progress", log[p].d, log[p].i,
                                         TotalSteps(log[p].d), log[p].wf, "", 0)
                /\ log[p].ev = "progress" =>
                      /\ p < Len(log)
                      /\ log[p + 1].ev = "run"
          /\ \A d \in 0..depth :
                \A j \in 1..Len(At(d, "progress")) :
                    /\ At(d, "progress")[j].i = j
                    /\ j <= TotalSteps(d)
                    /\ Len(At(d, "helped")) = 0 =>
                          At(d, "progress")[j].wf =
                              GetLifecycle(router, ReadAt(d)).steps[j].Workflow

\* the callback called with (4, 4, git-commit)
C8_Witness ==
    /\ progressCallback
    /\ \E p \in 1..Len(log) :
          /\ log[p].ev = "progress"
          /\ log[p].i = 4
          /\ log[p].n = 4
          /\ log[p].wf = "git-commit"

(***************************************************************************)
(* C9, C10: the atomic status update                                       *)
(***************************************************************************)
UpdateFailures ==
    {"invalid", "read", "parse", "notfound", "write", "rename", "rename-kept", "crash"}

\* C9: whenever UpdateStatus fails (invalid status, read or parse failure,
\* story not found, failure to write the temp file, rename failure) or the
\* process dies before the rename, the file at the target path is, line for
\* line, what it was when UpdateStatus was called.
C9_FailedUpdateKeepsDocument ==
    updErr \in UpdateFailures => fs[FullPath] = preDoc

\* the process died between the write of the temp file and the rename
C9_Witness ==
    /\ updErr = "crash"
    /\ preDoc.exists
    /\ fs[TmpPath] = File(updatedData)
    /\ fs[TmpPath] # preDoc
    /\ fs[FullPath] = preDoc

\* C10: whatever a Reader reads at the target path between the call of
\* UpdateStatus and its return is the whole document as it was before the call
\* or the whole document UpdateStatus marshalled, never a part of one.
C10_ReaderSeesWholeDocument ==
    \A d \in readsDuring : d = preDoc \/ d = File(updatedData)

\* one Reader saw the old document and one the new, during the same update
C10_Witness ==
    /\ InUpdate
    /\ preDoc # File(updatedData)
    /\ readsDuring = {preDoc, File(updatedData)}

(***************************************************************************)
(* C11: cleanup after a failed rename                                      *)
(***************************************************************************)
RenameFailed == updErr \in {"rename", "rename-kept"}

\* C11 as claimed: if the rename of UpdateStatus fails, the temp file is gone
\* when UpdateStatus returns and the rename error is returned.
C11_Original ==
    RenameFailed =>
        /\ ~fs[TmpPath].exists
        /\ result = Res("UpdateError", "rename", 0)

\* C11 as amended: if the rename of UpdateStatus fails, UpdateStatus calls
\* os.Remove on the temp file and returns the rename error, and Execute returns
\* it; the temp file is gone when the removal succeeded, and is left with the
\* marshalled document when the removal failed too, which UpdateStatus does not
\* report.  The target is what it was at the call in both cases.
C11_RenameFailureCleanup ==
    RenameFailed =>
        /\ pc = "done"
        /\ result = Res("UpdateError", "rename", 0)
        /\ fs[FullPath] = preDoc
        /\ updErr = "rename" => ~fs[TmpPath].exists
        /\ updErr = "rename-kept" => fs[TmpPath] = File(updatedData)

\* the rename failed and the temp file was removed
C11_Witness ==
    /\ updErr = "rename"
    /\ pc = "done"
    /\ result = Res("UpdateError", "rename", 0)
    /\ ~fs[TmpPath].exists
    /\ fs[FullPath] = preDoc

(***************************************************************************)
(* C12 .. C18: the Router                                                  *)
(***************************************************************************)
NonTerminal == {StatusBacklog, StatusReadyForDev, StatusInProgress, StatusReview}

\* rt was returned by a constructor and no InsertStepAfter call changed it
Constructed == rtPhase = "built" /\ rtInserts = 0

\* steps is a non-empty suffix of chain
IsSuffix(stps, chain) ==
    /\ Len(stps) > 0
    /\ Len(stps) <= Len(chain)
    /\ stps = SubSeq(chain, Len(chain) - Len(stps) + 1, Len(chain))

\* C12 as claimed: on any Router, GetLifecycle returns a non-empty chain suffix
\* for backlog, ready-for-dev, in-progress and review, ErrStoryComplete for
\* done, and ErrUnknownStatus for every status outside the recognised set.
C12_Original ==
    rtOut.op = "get" =>
        /\ rtOut.s \in NonTerminal =>
              rtOut.lc.err = "nil" /\ IsSuffix(rtOut.lc.steps, rt.chain)
        /\ rtOut.s = StatusDone => rtOut.lc.err = ErrStoryComplete
        /\ rtOut.s \notin ValidStatuses => rtOut.lc.err = ErrUnknownStatus

\* C12 as amended: on every Router, GetLifecycle returns ErrStoryComplete for
\* done, a non-empty chain suffix for every other status the Router has an
\* index for, and ErrUnknownStatus for every other status without one.  On the
\* default Router and the Router of the faithful manifest, also after
\* InsertStepAfter calls, the statuses with an index are exactly backlog,
\* ready-for-dev, in-progress and review, so every status outside the
\* recognised set gets ErrUnknownStatus.
C12_RoutingTotality ==
    rtOut.op = "get" =>
        /\ rtOut.s = StatusDone =>
              rtOut.lc = [err |-> ErrStoryComplete, steps |-> << >>]
        /\ (rtOut.s # StatusDone /\ rtOut.s \in DOMAIN rt.statusChainIndex) =>
              rtOut.lc.err = "nil" /\ IsSuffix(rtOut.lc.steps, rt.chain)
        /\ (rtOut.s # StatusDone /\ rtOut.s \notin DOMAIN rt.statusChainIndex) =>
              rtOut.lc = [err |-> ErrUnknownStatus, steps |-> << >>]
        /\ rtKind \in {"default", "faithful"} =>
              /\ rtOut.s \in NonTerminal =>
                    rtOut.lc.err = "nil" /\ IsSuffix(rtOut.lc.steps, rt.chain)
              /\ rtOut.s \notin ValidStatuses => rtOut.lc.err = ErrUnknownStatus

\* GetLifecycle(in-progress) on the default Router after an insertion
C12_Witness ==
    /\ rtKind = "default"
    /\ rtInserts > 0
    /\ rtOut.op = "get"
    /\ rtOut.s = StatusInProgress
    /\ rtOut.lc.err = "nil"
    /\ rtOut.lc.steps[1].Workflow = "dev-story"
    /\ Len(rtOut.lc.steps) > 3

\* the chain positions (1-based) before the step status t is mapped to
Before(r, t) == 1..r.statusChainIndex[t]

\* the chain positions (1-based) from the step status t is mapped to
From(r, t) == (r.statusChainIndex[t] + 1)..Len(r.chain)

\* C13 as claimed: for the default chain and every manifest-derived chain, and
\* every status t of the status-index map, no step before t's index has
\* NextStatus t.
C13_Original ==
    Constructed =>
        \A t \in DOMAIN rt.statusChainIndex :
            \A p \in Before(rt, t) : rt.chain[p].NextStatus # t

\* C13 as amended: for the default chain, the chain of the faithful manifest
\* and the custom chain of the tests, and every status t of the status-index
\* map, no step at or after t's index has NextStatus t (a lifecycle started
\* at t never writes t); the step just before t's index may have NextStatus t,
\* as create-story has for ready-for-dev.  NewRouterFromManifest checks nothing
\* of the kind on other manifests.
C13_ChainIndexCoherence ==
    (Constructed /\ rtKind \in {"default", "faithful", "custom"}) =>
        \A t \in DOMAIN rt.statusChainIndex :
            \A p \in From(rt, t) : rt.chain[p].NextStatus # t

\* the faithful manifest's Router: the step before ready-for-dev's index writes
\* ready-for-dev
C13_Witness ==
    /\ Constructed
    /\ rtKind = "faithful"
    /\ rtOut.op = "get"
    /\ rtOut.s = StatusReadyForDev
    /\ rt.chain[rt.statusChainIndex[StatusReadyForDev]].NextStatus = StatusReadyForDev
    /\ \A p \in From(rt, StatusReadyForDev) : rt.chain[p].NextStatus # StatusReadyForDev

\* C14: in the default Router, in every manifest-derived Router (also while
\* NewRouterFromManifest builds it) and after any InsertStepAfter calls, every
\* value of the status-index map is an index of the chain, and a successful
\* GetLifecycle returns at least one step.
C14_IndexInBounds ==
    /\ \A t \in DOMAIN rt.statusChainIndex :
          0 <= rt.statusChainIndex[t] /\ rt.statusChainIndex[t] < Len(rt.chain)
    /\ (rtOut.op = "get" /\ rtOut.lc.err = "nil") => Len(rtOut.lc.steps) >= 1

\* a manifest-derived Router after two insertions answers GetLifecycle
C14_Witness ==
    /\ rtKind = "manifest"
    /\ rtInserts = 2
    /\ rtOut.op = "get"
    /\ rtOut.lc.err = "nil"
    /\ \E t \in DOMAIN rt.statusChainIndex : rt.statusChainIndex[t] = Len(rt.chain) - 1

\* C15: InsertStepAfter(a, b, s) applied to the Router it has just been applied
\* to changes nothing: same chain, same status-index map, same workflow map.
\* It holds after the call made and for every argument triple on every Router.
C15_InsertIdempotent ==
    /\ rtCall.op = "insert" =>
          InsertStepAfter(rt, rtCall.a, rtCall.b, rtCall.s) = rt
    /\ \A a \in AfterWorkflows, b \in NewWorkflows, s \in InsertStatuses :
          InsertStepAfter(InsertStepAfter(rt, a, b, s), a, b, s)
              = InsertStepAfter(rt, a, b, s)

\* a second call with the arguments of a call that inserted: b follows a in the
\* chain and the call changed nothing
C15_Witness ==
    /\ rtCall.op = "insert"
    /\ rtInserts > 0
    /\ rt = rtPrev
    /\ ChainIndexOf(rt.chain, rtCall.a) >= 0
    /\ ChainIndexOf(rt.chain, rtCall.b) = ChainIndexOf(rt.chain, rtCall.a) + 1

\* the last InsertStepAfter call inserted a step
Inserted == rtCall.op = "insert" /\ rt # rtPrev

\* 0-based index at which the last call inserted
InsertIdx == ChainIndexOf(rtPrev.chain, rtCall.a) + 1

\* C16: when InsertStepAfter inserts a step, the step is at the index after
\* afterWorkflow's, every status-index entry at or beyond that index is one
\* more than before and the others are unchanged, and for every status mapped
\* before the call GetWorkflow returns what it returned and GetLifecycle still
\* begins with that workflow.
C16_InsertPreservesRouting ==
    Inserted =>
        /\ rt.chain[InsertIdx + 1] = chainStep(rtCall.b, rtCall.s)
        /\ Len(rt.chain) = Len(rtPrev.chain) + 1
        /\ DOMAIN rt.statusChainIndex = DOMAIN rtPrev.statusChainIndex
        /\ \A t \in DOMAIN rtPrev.statusChainIndex :
              /\ rt.statusChainIndex[t] =
                    IF rtPrev.statusChainIndex[t] >= InsertIdx
                    THEN rtPrev.statusChainIndex[t] + 1
                    ELSE rtPrev.statusChainIndex[t]
              /\ GetWorkflow(rt, t) = GetWorkflow(rtPrev, t)
              /\ GetLifecycle(rt, t).err = "nil"
              /\ GetLifecycle(rt, t).steps[1] = GetLifecycle(rtPrev, t).steps[1]
              /\ GetLifecycle(rt, t).steps[1].Workflow = GetWorkflow(rtPrev, t).workflow

\* an insertion that shifted the index of one status and not of another
C16_Witness ==
    /\ Inserted
    /\ \E t \in DOMAIN rtPrev.statusChainIndex :
          /\ rtPrev.statusChainIndex[t] = InsertIdx
          /\ rt.statusChainIndex[t] = InsertIdx + 1
    /\ \E t \in DOMAIN rtPrev.statusChainIndex :
          rt.statusChainIndex[t] = rtPrev.statusChainIndex[t]

\* C17: the Router NewRouterFromManifest builds from the manifest that lists
\* the default chain returns, for every status, the GetWorkflow result and the
\* GetLifecycle steps or sentinel NewRouter() returns.
C17_FaithfulManifestMatchesDefault ==
    (Constructed /\ rtKind = "faithful") =>
        /\ \A s \in StatusValues :
              /\ GetLifecycle(rt, s) = GetLifecycle(NewRouter, s)
              /\ GetWorkflow(rt, s) = GetWorkflow(NewRouter, s)
        /\ rtOut.op = "get" =>
              /\ rtOut.lc = GetLifecycle(NewRouter, rtOut.s)
              /\ rtOut.wf = GetWorkflow(NewRouter, rtOut.s)

\* in-progress on the faithful manifest's Router: the entry of a workflow that
\* is already in the chain
C17_Witness ==
    /\ Constructed
    /\ rtKind = "faithful"
    /\ rtOut.op = "get"
    /\ rtOut.s = StatusInProgress
    /\ rtOut.wf.workflow = "dev-story"
    /\ Len(rtOut.lc.steps) = 3

\* C18: on every Router (default, manifest-derived, after InsertStepAfter calls)
\* and for every status, GetWorkflow returns the sentinel GetLifecycle returns
\* or, when GetLifecycle succeeds, the workflow of its first step.
C18_GetWorkflowMatchesLifecycle ==
    /\ rtOut.op = "get" =>
          /\ rtOut.wf.err = rtOut.lc.err
          /\ rtOut.lc.err = "nil" =>
                rtOut.wf.workflow = rtOut.lc.steps[1].Workflow
          /\ rtOut.lc.err # "nil" => rtOut.wf.workflow = ""
    /\ DOMAIN rt.statusWorkflow = DOMAIN rt.statusChainIndex

\* a status outside the recognised set that a manifest maps, after an insertion
C18_Witness ==
    /\ rtKind = "manifest"
    /\ rtInserts > 0
    /\ rtOut.op = "get"
    /\ rtOut.s = PendingQA
    /\ rtOut.wf.err = "nil"
    /\ rtOut.wf.workflow = rtOut.lc.steps[1].Workflow

(***************************************************************************)
(* C19, C20: the lines Parse skips                                         *)
(***************************************************************************)
\* the lines json.Unmarshal decodes without error
Decodable(line) == JsonUnmarshal(line).err = "nil"

\* the positions of the lines that do not fit the buffer
LongAt == {k \in 1..Len(psInput) : psInput[k].long}

\* the number of lines before the first one that does not fit the buffer
Readable ==
    IF LongAt = {} THEN Len(psInput)
    ELSE (CHOOSE k \in LongAt : \A j \in LongAt : k <= j) - 1

Positions(n) == [k \in 1..n |-> k]

\* the events of the decodable lines among the first n, in source order
EventsOf(n) ==
    LET at == SelectSeq(Positions(n), LAMBDA k : Decodable(psInput[k]))
    IN  [j \in 1..Len(at) |->
            [from |-> at[j], ev |-> NewEventFromStream(JsonUnmarshal(psInput[at[j]]).ev)]]

\* C19 as claimed: for any input, no line that is not valid JSON produces an
\* event, and when Parse has closed the channel the events received are, in
\* source order, those of all the decodable lines of the input.
C19_Original ==
    /\ \A j \in 1..Len(psOut) : IsJSON(psInput[psOut[j].from])
    /\ psPc = "closed" => psOut = EventsOf(Len(psInput))

\* C19 as amended: no line that is not valid JSON, and no valid JSON line that
\* does not decode into a StreamEvent, produces an event; the events received
\* are at every moment a prefix of, and when Parse has closed the channel
\* exactly, the events of the decodable lines (one event per line, whatever its
\* type) that precede the first line too long for the scanner's buffer, in
\* source order.  A line too long for the buffer, garbage or not, ends the
\* parsing: neither it nor any later line produces an event.  When no line is
\* too long, these are the decodable lines of the whole input, including those
\* that follow garbage lines.
C19_GarbageSkipped ==
    /\ \A j \in 1..Len(psOut) :
          /\ Decodable(psInput[psOut[j].from])
          /\ ~psInput[psOut[j].from].long
    /\ IsPrefix(psOut, EventsOf(Readable))
    /\ psPc = "closed" => psOut = EventsOf(Readable)
    /\ (psPc = "closed" /\ LongAt = {}) => psOut = EventsOf(Len(psInput))

\* a garbage line, then a decodable line whose event was received, then the end
C19_Witness ==
    /\ psPc = "closed"
    /\ Len(psInput) = 3
    /\ psInput[1].kind = "object"
    /\ psInput[2].kind = "garbage" /\ ~psInput[2].long
    /\ psInput[3].kind = "object" /\ ~psInput[3].long
    /\ Len(psOut) = 2
    /\ psOut[2].from = 3

\* C20 as claimed: a decodable line whose type is not one of system, assistant,
\* user, result produces no event.
C20_Original ==
    \A j \in 1..Len(psOut) :
        psInput[psOut[j].from].kind = "object" => psOut[j].ev.Type \in KnownEventTypes

(***************************************************************************)
(* C21: GetEpicStories                                                     *)
(***************************************************************************)
\* the segments of a key between its "-" characters
RECURSIVE Segments(_)
Segments(str) ==
    IF \A k \in 1..Len(str) : str[k] # "-" THEN << str >>
    ELSE << FirstPart(str) >> \o Segments(SubSeq(str, Len(FirstPart(str)) + 2, Len(str)))

\* the key has the form {epic}-{N}-* (or {epic}-{N}) with N a string of digits
IsStoryOf(key, epic) ==
    /\ Len(Segments(key)) >= 2
    /\ Segments(key)[1] = epic
    /\ Len(Segments(key)[2]) > 0
    /\ \A k \in 1..Len(Segments(key)[2]) : Segments(key)[2][k] \in Digits

StoryNumber(key) == Decimal(Segments(key)[2])

\* C21: GetEpicStories(epic) returns exactly the keys of the document of the
\* form {epic}-{N}-*, each once, ordered by the number N ascending as a number
\* (2 precedes 10), and never a key of another epic; it fails when there is no
\* such key.  Keys {6-10-x, 6-2-y, 6-1-z, 7-1-q} with epic 6 give
\* [6-1-z, 6-2-y, 6-10-x].
C21_EpicStoriesSorted ==
    esPc = "done" =>
        LET matching == {key \in esKeys : IsStoryOf(key, esEpic)}
            keys == esOut.keys
        IN  /\ (esOut.err = "nil") = (matching # {})
            /\ esOut.err = "nil" =>
                  /\ {keys[k] : k \in 1..Len(keys)} = matching
                  /\ Len(keys) = Cardinality(matching)
                  /\ \A x, y \in 1..Len(keys) :
                        x < y => StoryNumber(keys[x]) <= StoryNumber(keys[y])
                  /\ \A k \in 1..Len(keys) : Segments(keys[k])[1] = esEpic
            /\ (/\ esEpic = << "6" >>
                /\ esKeys = { << "6", "-", "1", "0", "-", "x" >>,
                              << "6", "-", "2", "-", "y" >>,
                              << "6", "-", "1", "-", "z" >>,
                              << "7", "-", "1", "-", "q" >> })
               => keys = << << "6", "-", "1", "-", "z" >>,
                            << "6", "-", "2", "-", "y" >>,
                            << "6", "-", "1", "0", "-", "x" >> >>

\* the example of the claim: three keys of epic 6 returned with 2 before 10,
\* the key of epic 7 left out
C21_Witness ==
    /\ esPc = "done"
    /\ esEpic = << "6" >>
    /\ << "7", "-", "1", "-", "q" >> \in esKeys
    /\ esOut.err = "nil"
    /\ Len(esOut.keys) = 3
    /\ esOut.keys[2] = << "6", "-", "2", "-", "y" >>
    /\ esOut.keys[3] = << "6", "-", "1", "0", "-", "x" >>

(***************************************************************************)
(* C22: ParseResponse                                                      *)
(***************************************************************************)
\* the workflow name occurs in the response, whatever the case of its letters
Occurs(workflow) ==
    \E k \in 1..Len(prResponse) :
        /\ k + Len(Spelled(workflow)) - 1 <= Len(prResponse)
        /\ \A h \in 1..Len(Spelled(workflow)) :
              LowerPiece(prResponse[k + h - 1]) = Spelled(workflow)[h]

\* C22: ParseResponse returns the first workflow of the order create-story,
\* dev-story, code-review, test-automation, git-commit that occurs anywhere in
\* the response, letters compared without regard to case, wherever the names
\* stand in the response; when none occurs it fails.
C22_FirstInChainOrder ==
    prOut # NoRecommendation =>
        LET found == {j \in 1..Len(knownWorkflows) : Occurs(knownWorkflows[j])}
        IN  IF found = {} THEN prOut.err # "nil"
            ELSE /\ prOut.err = "nil"
                 /\ prOut.Workflow =
                        knownWorkflows[CHOOSE j \in found : \A h \in found : j <= h]

\* a response naming code-review before DEV-STORY: dev-story is returned
C22_Witness ==
    /\ prResponse = << "code-review", "Dev-", "STORY" >>
    /\ prOut.err = "nil"
    /\ prOut.Workflow = "dev-story"

(***************************************************************************)
(* C23: ResolvePath                                                        *)
(***************************************************************************)
\* there is something at the candidate p under the base directory
Exists(p) == rpDisk[Join(rpBasePath, p)] # "absent"

\* C23: ResolvePath returns the value of BMADUUM_SPRINT_STATUS_PATH when it is
\* set and not empty; else the explicit path when it is not empty; else the v6
\* path under the base directory when it exists; else the legacy path under
\* the base directory when it exists; else the v6 path under the base
\* directory, which does not exist.
C23_ResolutionOrder ==
    rpOut # << >> =>
        rpOut = IF rpEnv # "" THEN << rpEnv >>
                ELSE IF rpStatusPath # "" THEN << rpStatusPath >>
                ELSE IF Exists(V6StatusPath) THEN Join(rpBasePath, V6StatusPath)
                ELSE IF Exists(LegacyStatusPath) THEN Join(rpBasePath, LegacyStatusPath)
                ELSE Join(rpBasePath, V6StatusPath)

\* no environment value, no explicit path, both candidates on disk: the v6
\* path is returned
C23_Witness ==
    /\ rpEnv = ""
    /\ rpStatusPath = ""
    /\ rpBasePath = "/base"
    /\ Exists(V6StatusPath)
    /\ Exists(LegacyStatusPath)
    /\ rpOut = << "/base", V6StatusPath >>

(***************************************************************************)
(* C24: UpdateStatus validates the new status first                        *)
(***************************************************************************)
\* C24: a call of UpdateStatus with a new status outside {backlog,
\* ready-for-dev, in-progress, review, done} returns the invalid-status error
\* at once, whatever is on disk: the call is one step that leaves both files
\* as they are, and its error is never that of a failed read, parse or write.
C24_InvalidStatusRejectedFirst ==
    [][ (pc = "update" /\ steps[i + 1].NextStatus \notin ValidStatuses)
          => /\ pc' = "done"
             /\ result' = Res("UpdateError", "invalid", 0)
             /\ updErr' = "invalid"
             /\ fs' = fs ]_vars

\* UpdateStatus was called with pending-qa and returned the invalid-status
\* error; the document is the one found at the call, there is no temporary file
C24_Witness ==
    /\ pc = "done"
    /\ updErr = "invalid"
    /\ log[Len(log)].ev = "update"
    /\ log[Len(log)].st = PendingQA
    /\ fs[FullPath] = preDoc
    /\ ~fs[TmpPath].exists

(***************************************************************************)
(* C26: what a nil result of Execute means                                 *)
(***************************************************************************)
\* C26 as claimed: whenever Execute returns nil, every step of the lifecycle
\* of the status it read was run and recorded, and the status of the story in
\* the document is done.
C26_Original ==
    (pc = "done" /\ result = Res("nil", "", 0)) =>
        /\ CallsAt(depth) = Expected(GetLifecycle(router, ReadAt(depth)).steps)
        /\ Len(At(depth, "updated")) = Len(At(depth, "update"))
        /\ Persisted = StatusDone

(***************************************************************************)
(* C25: the dry-run plan                                                   *)
(***************************************************************************)
\* C25: while the story command runs with --dry-run, every step it takes, the
\* GetSteps calls included, leaves the Executor where it is: no RunSingle
\* call, no UpdateStatus call, no change to the document or to the temporary
\* file.
C25_DryRunRunsNothing ==
    [][ (cmdPc = "run" /\ cmdDryRun)
          => /\ log' = log
             /\ fs' = fs
             /\ pc = "idle"
             /\ pc' = "idle" ]_vars

\* a dry run over two stories ended: GetSteps returned the four steps of a
\* backlog story, nothing was run and no temporary file was written
C25_Witness ==
    /\ cmdDryRun
    /\ cmdPc = "ended"
    /\ Len(cmdRuns) = 2
    /\ \E r \in 1..2 : cmdRuns[r].op = "GetSteps" /\ Len(cmdRuns[r].steps) = 4
    /\ log = << >>
    /\ ~fs[TmpPath].exists

(***************************************************************************)
(* C27: the story command over several stories                             *)
(***************************************************************************)
\* the calls of the command that is running, or that ran last
RunsNow == SelectSeq(cmdRuns, LAMBDA r : r.cmd = cmdCount)

\* the RunSingle and UpdateStatus calls of a call log, as <<call, argument>>
CallsIn(lg) ==
    LET evs == SelectSeq(lg, LAMBDA e : e.ev \in {"run", "update"})
    IN  [j \in 1..Len(evs) |->
            << evs[j].ev, IF evs[j].ev = "run" THEN evs[j].wf ELSE evs[j].st >>]

\* the Execute call found the story at status st
FoundAt(r, st) == Len(r.log) > 0 /\ r.log[1].ev = "read" /\ r.log[1].st = st

Passed(r) == r.res.kind \in {"nil", ErrStoryComplete}

\* C27: the story command calls Execute for its arguments in argument order,
\* one at a time, a call starting only when the call before it returned.  A
\* story found at done is skipped: no phase, no update, and the command goes
\* on; it ends with an error only at a story whose Execute failed.  A story
\* whose Execute returns nil went through every step of its own lifecycle.
\* When no Execute fails, every argument was processed and the command
\* returns nil.
C27_DoneStoriesSkipped ==
    (cmdCount > 0 /\ ~cmdDryRun) =>
        /\ Len(RunsNow) <= Len(cmdArgs)
        /\ \A j \in 1..Len(RunsNow) :
              LET r == RunsNow[j]
              IN  /\ r.key = cmdArgs[j]
                  /\ j < Len(RunsNow) => Passed(r)
                  /\ FoundAt(r, StatusDone) =>
                        /\ r.res.kind = ErrStoryComplete
                        /\ CallsIn(r.log) = << >>
                  /\ r.res.kind = "nil" =>
                        CallsIn(r.log) = Expected(GetLifecycle(router, r.log[1].st).steps)
        /\ pc # "idle" =>
              /\ cmdPc = "run"
              /\ cmdAt = Len(RunsNow) + 1
              /\ storyKey = cmdArgs[cmdAt]
        /\ cmdPc = "ended" =>
              /\ Len(RunsNow) > 0
              /\ IF Passed(RunsNow[Len(RunsNow)])
                 THEN Len(RunsNow) = Len(cmdArgs) /\ cmdErr = "nil"
                 ELSE cmdErr = RunsNow[Len(RunsNow)].res.kind

\* scenario "mixed statuses": STORY-1 is done and skipped, STORY-2 then goes
\* from review through code-review and git-commit, and the command returns nil
C27_Witness ==
    /\ cmdPc = "ended"
    /\ cmdCount = 1
    /\ cmdErr = "nil"
    /\ cmdArgs = << "STORY-1", "STORY-2" >>
    /\ Len(cmdRuns) = 2
    /\ cmdRuns[1].res.kind = ErrStoryComplete
    /\ cmdRuns[2].res.kind = "nil"
    /\ CallsIn(cmdRuns[2].log) =
          << << "run", "code-review" >>, << "update", StatusDone >>,
             << "run", "git-commit" >>, << "update", StatusDone >> >>

(***************************************************************************)
(* C28: resume                                                             *)
(***************************************************************************)
\* the Execute calls for one story, in order
ExecutesOf(key) == SelectSeq(cmdRuns, LAMBDA r : r.op = "Execute" /\ r.key = key)

\* the workflows a call of Execute ran, in order
RanIn(r) == SelectSeq(r.log, LAMBDA e : e.ev = "run")

\* C28 as claimed: when Execute stopped at step k, at a phase that returned
\* non-zero or at the status update after it, the next Execute for the same
\* story starts with the phase of step k.
C28_Original ==
    \A key \in Stories :
        \A a \in 1..Len(ExecutesOf(key)) :
            LET first == ExecutesOf(key)[a]
            IN  (/\ a < Len(ExecutesOf(key))
                 /\ first.res.kind \in {"WorkflowFailed", "UpdateError"})
                => LET again == ExecutesOf(key)[a + 1]
                   IN  /\ Len(RanIn(again)) > 0
                       /\ RanIn(again)[1].wf = RanIn(first)[Len(RanIn(first))].wf

(***************************************************************************)
(* C29: a status update that fails                                         *)
(***************************************************************************)
\* UpdateStatus has returned an error to the step loop
UpdateFailed == updErr \in (UpdateFailures \ {"crash"})

\* C29: when UpdateStatus fails after phase k of a lifecycle succeeded, Execute
\* returns that error at once.  The failed update is the last call Execute
\* made: no phase and no update follow it.  In the lifecycle that was running,
\* exactly k phases were invoked, all with exit code 0, k updates were
\* attempted and the first k - 1 succeeded.  When the lifecycle came from the
\* bmad-help fallback, Execute does not read the status again and does not
\* enter a deeper lifecycle.
C29_UpdateFailureStops ==
    UpdateFailed =>
        /\ pc = "done"
        /\ result.kind = "UpdateError"
        /\ LET k == i + 1
               last == log[Len(log)]
           IN  /\ last = Ev("update", depth, k, 0, "", steps[k].NextStatus, 0)
               /\ Len(At(depth, "run")) = k
               /\ Len(At(depth, "exit")) = k
               /\ \A j \in 1..k : ~PhaseFailed(At(depth, "exit")[j].code)
               /\ Len(At(depth, "update")) = k
               /\ Len(At(depth, "updated")) = k - 1
               /\ Len(At(depth, "read")) = 1
               /\ \A p \in 1..Len(log) : log[p].d <= depth

\* the rename of the second update of the default lifecycle fails: create-story
\* and dev-story ran, code-review and git-commit did not
C29_Witness ==
    /\ pc = "done"
    /\ result = Res("UpdateError", "rename", 0)
    /\ router = NewRouter
    /\ depth = 0
    /\ Len(steps) = 4
    /\ i = 1
    /\ Len(Kind("run")) = 2
    /\ Len(Kind("updated")) = 1

(***************************************************************************)
(* C30: a consumer that stops receiving                                    *)
(***************************************************************************)
\* C30 as claimed: when the consumer stops receiving before the end of the
\* input, the goroutine of Parse still returns and closes the channel.
C30_Original == psStopped ~> (psPc = "closed")

(***************************************************************************)
(* C31: delivery to the handler and the next read                          *)
(***************************************************************************)
\* the number of lines among the first n that decode into an event
Decoded(n) == Len(EventsOf(n))

\* C31 as claimed: whenever a further line is read, the handler has finished
\* with every event decoded from the lines read before.
C31_Original ==
    [][psPos' # psPos => psHandled = Decoded(psPos)]_vars

\* C31 as amended: whenever a further line is read, every event decoded from
\* the lines read before has been handed over, in source order: received from
\* the channel of Parse, or handled in the loop of runClaude.  In runClaude the
\* handling of an event is finished before the next line is read.  With Parse
\* the handler runs in the consumer while the goroutine reads on: the handler
\* works on one event at a time, in order, and the goroutine is never more
\* than one decoded event ahead of the event the handler is working on.
C31_HandedOverBeforeNextRead ==
    /\ Decoded(psPos) = Len(psOut) + (IF psPc \in {"send", "handle"} THEN 1 ELSE 0)
    /\ psOut = SubSeq(EventsOf(psPos), 1, Len(psOut))
    /\ psHandled <= Len(psOut)
    /\ Len(psOut) <= psHandled + 1
    /\ Decoded(psPos) <= psHandled + 2
    /\ (psMode = "runClaude" /\ psPc = "scan") => psHandled = Decoded(psPos)

\* Parse has read the second line, and decoded it, while the handler is still
\* working on the event of the first line
C31_Witness ==
    /\ psMode = "parse"
    /\ psPos = 2
    /\ psPc = "send"
    /\ Len(psOut) = 1
    /\ psHandled = 0

(***************************************************************************)
(* C32: the Reader and the Writer of one configuration                     *)
(***************************************************************************)
\* C32 as claimed: the Writer updates the document the Reader resolved, and
\* after UpdateStatus(story, s) returned nil, GetStoryStatus(story) returns s.
C32_Original ==
    /\ rpOut # << >> => rpOut = WriterPath(rpBasePath)
    /\ (stUpd.err = "nil" /\ stGot # NoRead) =>
          stGot = [err |-> "nil", status |-> stUpd.status]

(***************************************************************************)
(* C33: what a successful UpdateStatus leaves as it was                    *)
(***************************************************************************)
\* the top-level fields of a document other than development_status
OtherFields(data) == SelectSeq(data, LAMBDA l : l.kind = "field")

\* C33 as claimed: a call of UpdateStatus(story, s) that returns nil leaves the
\* set of story keys, the status of every other story and every other field
\* of the document as they were, and sets the status of the story to s.
C33_Original ==
    [][ (stUpd = NoUpdate /\ stUpd'.err = "nil")
          => LET fullPath == WriterPath(rpBasePath)
                 before == Unmarshal(stDocs[fullPath].data).DevelopmentStatus
                 after == Unmarshal(stDocs'[fullPath].data).DevelopmentStatus
             IN  /\ DOMAIN after = DOMAIN before
                 /\ \A k \in DOMAIN before \ {stUpd'.key} : after[k] = before[k]
                 /\ after[stUpd'.key] = stUpd'.status
                 /\ OtherFields(stDocs'[fullPath].data) = OtherFields(stDocs[fullPath].data)
       ]_vars

(***************************************************************************)
(* C34, C35: the maps and the chain NewRouterFromManifest builds           *)
(***************************************************************************)
\* the entries NewRouterFromManifest has gone through
RowsRead == IF rtPhase = "built" THEN rtManifest ELSE SubSeq(rtManifest, 1, rtRows)

\* the Router comes from a manifest and no step was inserted since
FromManifest == rtKind # "default" /\ rtInserts = 0

\* the first row of m that names workflow w, and the last row with trigger t
FirstSighting(m, w) ==
    CHOOSE j \in 1..Len(m) :
        m[j].Workflow = w /\ \A h \in 1..(j - 1) : m[h].Workflow # w
LastRowOf(m, t) ==
    CHOOSE j \in 1..Len(m) :
        m[j].TriggerStatus = t /\ \A h \in (j + 1)..Len(m) : m[h].TriggerStatus # t

\* the 0-based place of w among the workflows of m in order of first sighting
PhaseIndex(m, w) ==
    Cardinality({m[h].Workflow : h \in 1..(FirstSighting(m, w) - 1)})

\* C34: in the Router NewRouterFromManifest builds, also while it builds it,
\* the statuses mapped are exactly the non-empty trigger_status values of the
\* rows read; each is mapped to the workflow of the last row that carries it
\* and to the chain index of that workflow, whether that row was the first
\* sighting of the workflow or a later one.
C34_LastTriggerWins ==
    FromManifest =>
        LET m == RowsRead
            triggers == {m[j].TriggerStatus : j \in 1..Len(m)} \ {""}
        IN  /\ DOMAIN rt.statusChainIndex = triggers
            /\ DOMAIN rt.statusWorkflow = triggers
            /\ \A t \in triggers :
                  LET w == m[LastRowOf(m, t)].Workflow
                  IN  /\ rt.statusWorkflow[t] = w
                      /\ rt.statusChainIndex[t] = PhaseIndex(m, w)
                      /\ rt.chain[PhaseIndex(m, w) + 1].Workflow = w

\* two rows with the trigger backlog and different workflows: backlog is
\* mapped to the second row's workflow, at chain index 1
C34_Witness ==
    /\ rtKind = "manifest"
    /\ rtPhase = "built"
    /\ rtInserts = 0
    /\ Len(rtManifest) = 2
    /\ rtManifest[1].TriggerStatus = StatusBacklog
    /\ rtManifest[2].TriggerStatus = StatusBacklog
    /\ rtManifest[1].Workflow = "create-story"
    /\ rtManifest[2].Workflow = "dev-story"
    /\ rt.statusWorkflow[StatusBacklog] = "dev-story"
    /\ rt.statusChainIndex[StatusBacklog] = 1

\* C35: no workflow name is twice in the chain: in the default Router, in
\* every manifest-derived Router (also while it is built) and after any
\* InsertStepAfter calls.  Before any insertion the chain of a manifest-derived
\* Router is the workflows of the rows read, each once, in the order of their
\* first sighting, with the next_status of the first row that names it.
C35_UniquePhaseNames ==
    /\ \A a \in 1..Len(rt.chain), b \in 1..Len(rt.chain) :
          a # b => rt.chain[a].Workflow # rt.chain[b].Workflow
    /\ FromManifest =>
          LET m == RowsRead
              names == {m[j].Workflow : j \in 1..Len(m)}
          IN  /\ Len(rt.chain) = Cardinality(names)
              /\ \A w \in names :
                    rt.chain[PhaseIndex(m, w) + 1] =
                        chainStep(w, m[FirstSighting(m, w)].NextStatus)

\* a manifest that names one workflow in both rows gives a chain of one step;
\* a step was inserted, and the same InsertStepAfter call again changed nothing
C35_Witness ==
    /\ rtKind = "manifest"
    /\ Len(rtManifest) = 2
    /\ rtManifest[1].Workflow = rtManifest[2].Workflow
    /\ rtInserts = 1
    /\ Len(rt.chain) = 2
    /\ rtCall.op = "insert"
    /\ rt = rtPrev
    /\ ChainIndexOf(rt.chain, rtCall.b) >= 0

(***************************************************************************)
(* C36: the NextStatus of the steps around an inserted step                *)
(***************************************************************************)
\* C36 as claimed: when InsertStepAfter(W, new, s) inserts, the new step has
\* NextStatus s and the step of W no longer has the NextStatus it had.
C36_Original ==
    Inserted =>
        /\ rt.chain[InsertIdx + 1].NextStatus = rtCall.s
        /\ rt.chain[InsertIdx].Workflow = rtCall.a
        /\ rt.chain[InsertIdx].NextStatus # rtPrev.chain[InsertIdx].NextStatus

(***************************************************************************)
(* C37: the plan of GetSteps and the phases Execute runs                   *)
(***************************************************************************)
\* the Executor is configured before the plan is asked for
PlanSetRouter ==
    /\ cmdPc = "off"
    /\ SetRouter

PlanSetBmadHelp ==
    /\ cmdPc = "off"
    /\ SetBmadHelp

\* GetSteps(key) is called on the state Execute(key) then starts from
PlanGetSteps ==
    /\ cmdPc = "off"
    /\ pc = "idle"
    /\ \E key \in Stories :
          /\ GetStepsCall(key)
          /\ cmdArgs' = << key >>
    /\ cmdAt' = 1
    /\ cmdPc' = "run"
    /\ UNCHANGED << callVars, cmdDryRun, cmdCount, cmdErr, cmdRuns >>

PlanNext ==
    \/ PlanSetRouter
    \/ PlanSetBmadHelp
    \/ PlanGetSteps
    \/ StoryExecute
    \/ Enter
    \/ ResolveWorkflowReturns
    \/ LoopStep
    \/ RunSingleReturns
    \/ LoopEnd
    \/ UpdateStatusCall
    \/ WriteFileOpen
    \/ WriteFileWrite
    \/ Rename
    \/ UpdateStatusReturns

PlanSpec == Init /\ [][PlanNext]_vars

WorkflowsOf(stps) == [k \in 1..Len(stps) |-> stps[k].Workflow]

\* the workflows GetSteps planned, and the workflows RunSingle was called for
Planned == WorkflowsOf(cmdPlan.steps)
Ran == [k \in 1..Len(Kind("run")) |-> Kind("run")[k].wf]

\* Execute(K) was called after GetSteps(K)
PlanExecuted == cmdPc = "run" /\ pc # "idle"

\* the plan against the run: the phases run so far are the first phases of the
\* plan, they are the whole plan when Execute returns nil, and GetSteps failed
\* exactly when Execute returns without having run a phase
PlanIsRun ==
    /\ IsPrefix(Ran, Planned)
    /\ (pc = "done" /\ result.kind = "nil") => Ran = Planned
    /\ pc = "done" => (cmdPlan.err # "nil" <=> Ran = << >>)

\* C37 as claimed: for every configuration, an installed fallback included, the
\* plan of GetSteps(K) is the sequence of phases Execute(K) runs when every
\* phase succeeds, and GetSteps fails exactly when Execute runs no phase.
C37_Original == PlanExecuted => PlanIsRun

\* C37: when Execute(K) does not consult the fallback, the phases it runs are
\* the first phases of the plan of GetSteps(K), they are the whole plan when
\* Execute returns nil, and GetSteps failed exactly when Execute ran no phase;
\* when Execute consults the fallback, GetSteps(K) failed with ErrUnknownStatus
\* and planned nothing, whatever Execute then runs.
C37_PlanWithoutFallback ==
    PlanExecuted =>
        /\ Kind("help") = << >> => PlanIsRun
        /\ Kind("help") # << >> =>
              cmdPlan = [err |-> ErrUnknownStatus, steps |-> << >>]
        /\ cmdPlan.err # "nil" => cmdPlan.steps = << >>

\* a fallback is installed and not consulted: Execute ran the four planned
\* phases of a backlog story and returned nil
C37_Witness ==
    /\ PlanExecuted
    /\ bmadHelp
    /\ pc = "done"
    /\ result.kind = "nil"
    /\ Kind("help") = << >>
    /\ Len(Ran) = 4
    /\ Ran = Planned

(***************************************************************************)
(* C38: Execute terminates                                                 *)
(***************************************************************************)
\* one step of a running Execute call: a status read, a fallback call
\* returning, a phase started or returning, a file operation of UpdateStatus
ExecuteStep ==
    \/ Enter
    \/ ResolveWorkflowReturns
    \/ LoopStep
    \/ RunSingleReturns
    \/ LoopEnd
    \/ UpdateStatusCall
    \/ WriteFileOpen
    \/ WriteFileWrite
    \/ Rename
    \/ UpdateStatusReturns

TerminationNext ==
    \/ SetRouter
    \/ SetBmadHelp
    \/ Execute
    \/ Enter
    \/ ResolveWorkflowReturns
    \/ LoopStep
    \/ RunSingleReturns
    \/ LoopEnd
    \/ UpdateStatusCall
    \/ WriteFileOpen
    \/ WriteFileWrite
    \/ Rename
    \/ UpdateStatusReturns

\* every phase, every fallback call and every file operation returns
TerminationSpec == Init /\ [][TerminationNext]_vars /\ WF_vars(ExecuteStep)

\* the executeWithDepth call of depth d was entered from the call of depth d-1
\* after a step the fallback resolved
ReEntryAfterFallback(d) ==
    /\ Len(At(d - 1, "help")) = 1
    /\ Len(At(d - 1, "helped")) = 1

FallbackBounded ==
    /\ depth <= maxBmadHelpDepth
    /\ Len(Kind("help")) <= maxBmadHelpDepth
    /\ Len(Kind("help")) <= 3
    /\ \A d \in 0..maxBmadHelpDepth : Len(At(d, "help")) <= 1
    /\ \A d \in 1..depth : ReEntryAfterFallback(d)
    /\ (pc = "done" /\ result.kind = "nil") => ~usedBmadHelp

\* C38: an Execute call whose phases, fallback calls and file operations all
\* return does return; it calls the fallback at most 3 times, at most once per
\* depth, and executeWithDepth is re-entered only after a step the fallback
\* resolved, never after a lifecycle the router gave.
C38_Terminates ==
    /\ []FallbackBounded
    /\ (pc = "enter" /\ depth = 0) ~> (pc = "done")

\* the fallback was called three times, at depths 0, 1 and 2, and the fourth
\* executeWithDepth call returned the depth error
C38_Witness ==
    /\ pc = "done"
    /\ depth = maxBmadHelpDepth
    /\ Len(Kind("read")) = maxBmadHelpDepth + 1
    /\ Len(Kind("help")) = 3
    /\ Len(Kind("run")) = 3
    /\ result.kind = "DepthExceeded"

(***************************************************************************)
(* C39: the next_status of the steps handed to the Executor                *)
(***************************************************************************)
\* a manifest whose last row names a next_status outside the recognised set
PendingQAManifest ==
    << WorkflowEntry("create-story", StatusBacklog, StatusReadyForDev),
       WorkflowEntry("dev-story", StatusReadyForDev, StatusReview),
       WorkflowEntry("code-review", StatusReview, PendingQA) >>

\* routers built from a manifest file or extended by a module, whose
\* next_status strings nothing has looked at
UncheckedRouters ==
    { NewRouterFromManifest(PendingQAManifest),
      InsertStepAfter(NewRouter, "code-review", "test-automation", PendingQA) }

\* SetRouter called with such a router
SetRouterUnchecked ==
    /\ UNCHANGED libVars
    /\ pc = "idle"
    /\ \E r \in UncheckedRouters : router' = r
    /\ UNCHANGED << progressCallback, bmadHelp, fs, pc, runVars, result, log,
                    cancelMark, updVars >>

HandedNext ==
    \/ SetRouter
    \/ SetRouterUnchecked
    \/ SetBmadHelp
    \/ Execute
    \/ Enter
    \/ ResolveWorkflowReturns
    \/ LoopStep
    \/ RunSingleReturns
    \/ LoopEnd
    \/ UpdateStatusCall
    \/ WriteFileOpen
    \/ WriteFileWrite
    \/ Rename
    \/ UpdateStatusReturns

HandedSpec == Init /\ [][HandedNext]_vars

\* C39 as claimed: every step the Executor loops over, from the default router,
\* a manifest-derived router, InsertStepAfter or the fallback, has a NextStatus
\* of the recognised set, and no UpdateStatus call after a phase that exited 0
\* is rejected for an invalid status.
C39_Original ==
    /\ \A k \in 1..Len(steps) : IsValid(steps[k].NextStatus)
    /\ updErr # "invalid"
    /\ ~(result.kind = "UpdateError" /\ result.wf = "invalid")

====
